---------------------------- MODULE Spec2Model ----------------------------
(***************************************************************************)
(* Model of the StGit stack transaction core                               *)
(* (src/src/stack/transaction/mod.rs): the in-memory StackTransaction with *)
(* its mutation methods, and ExecuteContext::execute() which persists the  *)
(* transaction to the branch ref, the stack-state ref and the patch refs.  *)
(*                                                                         *)
(* Commits are content-addressed values [parent, tree, msg]; a tree is a   *)
(* tuple of file contents, so that a three-way merge is computed and can   *)
(* conflict.                                                               *)
(***************************************************************************)
EXTENDS Integers, Sequences, FiniteSets, TLC

VARIABLES
    stack,            \* the original Stack borrowed by the transaction
    refs,             \* reference database: branch, stack-state ref, patch refs
    applied,          \* StackTransaction.applied
    unapplied,        \* StackTransaction.unapplied
    hidden,           \* StackTransaction.hidden
    updated_patches,  \* StackTransaction.updated_patches
    updated_head,     \* StackTransaction.updated_head
    updated_base,     \* StackTransaction.updated_base
    current_tree_id,  \* StackTransaction.current_tree_id
    error,            \* StackTransaction.error
    options,          \* StackTransaction.options
    worktree,         \* what the primary index and worktree hold
    phase,            \* "body", "ready", "done", "dropped", "panicked"
    nops,             \* number of mutation methods called by the body
    budget,           \* number of mutation methods the body may call
    exec              \* what execute() did and returned

vars == <<stack, refs, applied, unapplied, hidden, updated_patches,
          updated_head, updated_base, current_tree_id, error, options,
          worktree, phase, nops, budget, exec>>

-----------------------------------------------------------------------------
(* Bounds of the model *)

\* number of mutation methods one transaction body calls
MaxOps == 2

\* number of mutation methods of a body run on a stack whose head is its top,
\* under WorktreeOptions
MaxOpsDeep == 3

-----------------------------------------------------------------------------
(* Sequences *)

Last(s) == s[Len(s)]

Range(s) == {s[i] : i \in 1..Len(s)}

\* Vec::contains
Contains(s, x) == \E i \in 1..Len(s) : s[i] = x

\* Iterator::position: index of the first element satisfying membership in S, 0 if none
PositionIn(s, S) ==
    IF \E i \in 1..Len(s) : s[i] \in S
    THEN CHOOSE i \in 1..Len(s) : s[i] \in S /\ \A j \in 1..(i-1) : s[j] \notin S
    ELSE 0

Position(s, x) == PositionIn(s, {x})

\* Vec::remove(pos), pos is 1-based here
RemoveAt(s, pos) == SubSeq(s, 1, pos - 1) \o SubSeq(s, pos + 1, Len(s))

\* Vec::insert(pos, x) with a 0-based pos as in the source
InsertAt(s, pos, x) == SubSeq(s, 1, pos) \o <<x>> \o SubSeq(s, pos + 1, Len(s))

\* iter().filter(|x| S.contains(x))
FilterIn(s, S) == SelectSeq(s, LAMBDA x : x \in S)

\* iter().filter(|x| !S.contains(x))
FilterOut(s, S) == SelectSeq(s, LAMBDA x : x \notin S)

\* zip(a, b).take_while(|(x, y)| x == y).count()
RECURSIVE CommonPrefixFrom(_, _, _)
CommonPrefixFrom(a, b, i) ==
    IF i <= Len(a) /\ i <= Len(b) /\ a[i] = b[i]
    THEN CommonPrefixFrom(a, b, i + 1)
    ELSE i - 1

NumCommon(a, b) == CommonPrefixFrom(a, b, 1)

NoDup(s) == \A i, j \in 1..Len(s) : i # j => s[i] # s[j]

\* the sequences over S without repetition, of length 0..n
RECURSIVE SeqsNoDup(_, _)
SeqsNoDup(S, n) ==
    IF n = 0 THEN {<<>>}
    ELSE LET shorter == SeqsNoDup(S, n - 1)
         IN  shorter \cup {Append(q, x) : q \in shorter, x \in S}

NoDupSeqs(S, n) == {q \in SeqsNoDup(S, n) : NoDup(q)}

\* F(v), with v evaluated once before F uses it
Let1(v, F(_)) == CHOOSE y \in {F(x) : x \in {v}} : TRUE

-----------------------------------------------------------------------------
(* Git objects *)

\* absent commit (Option::None, or the parent of a root commit)
NoCommit == [none |-> TRUE]

\* tombstone entry of updated_patches (None)
Tomb == [tomb |-> TRUE]

\* absent tree id (Option<Oid>::None, or an empty index)
NoTree == <<>>

\* commit_ex(author, committer, message, tree, [parent]): the commit object
\* is determined by its content
Commit(parent, tree, msg) == [parent |-> parent, tree |-> tree, msg |-> msg]

\* the files that differ in two ways from the merge base
ConflictFiles(base, ours, theirs) ==
    {i \in 1..Len(base) : ours[i] # base[i] /\ theirs[i] # base[i] /\ ours[i] # theirs[i]}

\* the result of a three-way merge without conflicts
Merge3(base, ours, theirs) ==
    [i \in 1..Len(base) |-> IF theirs[i] = base[i] THEN ours[i] ELSE theirs[i]]

-----------------------------------------------------------------------------
(* The original Stack (crate::stack::Stack), as the transaction uses it *)

\* Stack::has_patch
StackHasPatch(pn) == pn \in DOMAIN stack.state.patches

\* Stack::get_patch(pn).commit; indexing a missing name panics
StackGetPatch(pn) == stack.state.patches[pn]

\* Stack::collides: the patch of the stack whose name collides with pn
StackCollides(pn) == pn \in DOMAIN stack.state.patches

\* Stack::base
StackBase == stack.base

\* Stack::top: the commit of the last applied patch, or the base
StackTop(stk) ==
    IF stk.state.applied # <<>>
    THEN stk.state.patches[stk.state.applied[Len(stk.state.applied)]]
    ELSE stk.base

\* Stack::is_head_top: the branch head is the top of the stack
IsHeadTop(stk) == stk.branch_head = StackTop(stk)

\* StackState::commit: the state commit object written for a stack state
StateCommit(state) == state

\* Stack::log_external_mods: records the branch head moved by other tools in a
\* new stack state whose prev is the state the stack ref pointed to
LogExternalMods(stk, stackref) ==
    [stk EXCEPT !.state = [@ EXCEPT !.prev = stackref, !.head = stk.branch_head]]

-----------------------------------------------------------------------------
(* The transaction as a value, and StackStateAccess for StackTransaction *)

T == [applied |-> applied, unapplied |-> unapplied, hidden |-> hidden,
      updated_patches |-> updated_patches, updated_head |-> updated_head,
      updated_base |-> updated_base, current_tree_id |-> current_tree_id,
      options |-> options, worktree |-> worktree]

\* StackStateAccess::all_patches
AllPatches(t) == Range(t.applied) \cup Range(t.unapplied) \cup Range(t.hidden)

\* StackTransaction::has_patch
HasPatch(t, pn) ==
    IF pn \in DOMAIN t.updated_patches
    THEN t.updated_patches[pn] # Tomb
    ELSE StackHasPatch(pn)

\* get_patch does not panic: the entry is live, or the original stack has the patch
CanGetPatch(t, pn) ==
    IF pn \in DOMAIN t.updated_patches
    THEN t.updated_patches[pn] # Tomb
    ELSE StackHasPatch(pn)

\* StackTransaction::get_patch(pn).commit
GetPatchCommit(t, pn) ==
    IF pn \in DOMAIN t.updated_patches
    THEN t.updated_patches[pn]
    ELSE StackGetPatch(pn)

\* StackTransaction::base
Base(t) == IF t.updated_base # NoCommit THEN t.updated_base ELSE StackBase

\* StackTransaction::top
Top(t) == IF t.applied # <<>> THEN GetPatchCommit(t, Last(t.applied)) ELSE Base(t)

\* StackTransaction::head
TransHead(t) == IF t.updated_head # NoCommit THEN t.updated_head ELSE Top(t)

\* BTreeMap::insert
Insert(m, k, v) == [x \in DOMAIN m \cup {k} |-> IF x = k THEN v ELSE m[x]]

\* BTreeMap::insert of the same value for every key of S
InsertAll(m, S, v) == [x \in DOMAIN m \cup S |-> IF x \in S THEN v ELSE m[x]]

-----------------------------------------------------------------------------
(* Outcomes of a method: the transaction it leaves and what it returned *)

Ok(t) == [t |-> t, res |-> "ok"]

\* Err(other than a TransactionHalt), or a panic
Err(t) == [t |-> t, res |-> "err"]

Panic(t) == [t |-> t, res |-> "panic"]

-----------------------------------------------------------------------------
(* StackTransaction mutation methods; a predicate closure is the set of the
   patch names it accepts *)

UpdatePatch(t, patchname, commit) ==
    IF ~CanGetPatch(t, patchname) THEN Panic(t)
    ELSE Ok([t EXCEPT !.updated_patches = Insert(@, patchname, commit)])

NewApplied(t, patchname, commit) ==
    IF commit.parent # Top(t) THEN Panic(t)
    ELSE Ok([t EXCEPT !.applied = Append(@, patchname),
                      !.updated_patches = Insert(@, patchname, commit)])

NewUnapplied(t, patchname, commit, insert_pos) ==
    IF insert_pos > Len(t.unapplied) THEN Panic(t)
    ELSE Ok([t EXCEPT !.unapplied = InsertAt(@, insert_pos, patchname),
                      !.updated_patches = Insert(@, patchname, commit)])

PushTree(t, patchname) ==
    IF ~CanGetPatch(t, patchname) THEN Panic(t)
    ELSE
    LET patch_commit == GetPatchCommit(t, patchname)
        new_commit == Commit(Top(t), patch_commit.tree, patch_commit.msg)
        t1 == IF patch_commit.parent # Top(t)
              THEN [t EXCEPT !.updated_patches = Insert(@, patchname, new_commit)]
              ELSE t
    IN  IF patch_commit.parent = NoCommit THEN Err(t)
        ELSE IF Contains(t1.unapplied, patchname)
        THEN Ok([t1 EXCEPT !.unapplied = RemoveAt(@, Position(@, patchname)),
                           !.applied = Append(@, patchname)])
        ELSE IF Contains(t1.hidden, patchname)
        THEN Ok([t1 EXCEPT !.hidden = RemoveAt(@, Position(@, patchname)),
                           !.applied = Append(@, patchname)])
        ELSE Panic(t1)

RECURSIVE PushTreeFrom(_, _, _)
PushTreeFrom(t, patchnames, i) ==
    IF i > Len(patchnames) THEN Ok(t)
    ELSE Let1(PushTree(t, patchnames[i]), LAMBDA r :
              IF r.res # "ok" THEN r ELSE PushTreeFrom(r.t, patchnames, i + 1))

PushTreePatches(t, patchnames) == PushTreeFrom(t, patchnames, 1)

\* the permutation check of repair_appliedness
RepairAppliedness(t, new_applied, new_unapplied, new_hidden) ==
    LET old == AllPatches(t)
        t1 == [t EXCEPT !.applied = new_applied, !.unapplied = new_unapplied,
                        !.hidden = new_hidden]
        all == new_applied \o new_unapplied \o new_hidden
    IN  IF NoDup(all) /\ Range(all) = old THEN Ok(t1) ELSE Panic(t1)

\* a pop_patches that puts the requested patches before the incidental ones
PopPatchesRequestedFirst(t, should_pop) ==
    LET first_pop_pos == PositionIn(t.applied, should_pop)
        all_popped == IF first_pop_pos # 0
                      THEN SubSeq(t.applied, first_pop_pos, Len(t.applied))
                      ELSE <<>>
        kept == IF first_pop_pos # 0
                THEN SubSeq(t.applied, 1, first_pop_pos - 1)
                ELSE t.applied
        incidental == FilterOut(all_popped, should_pop)
        requested == FilterIn(all_popped, should_pop)
    IN  [t |-> [t EXCEPT !.applied = kept,
                         !.unapplied = requested \o incidental \o @],
         res |-> "ok", incidental |-> incidental, all_popped |-> all_popped]

\* a pop_patches that pops the top patch when the predicate selects nothing
PopPatchesTop(t, should_pop) ==
    LET first_pop_pos == IF PositionIn(t.applied, should_pop) # 0
                         THEN PositionIn(t.applied, should_pop)
                         ELSE Len(t.applied)
        all_popped == IF first_pop_pos # 0
                      THEN SubSeq(t.applied, first_pop_pos, Len(t.applied))
                      ELSE <<>>
        kept == IF first_pop_pos # 0
                THEN SubSeq(t.applied, 1, first_pop_pos - 1)
                ELSE t.applied
        incidental == FilterOut(all_popped, should_pop)
        requested == FilterIn(all_popped, should_pop)
    IN  [t |-> [t EXCEPT !.applied = kept,
                         !.unapplied = incidental \o requested \o @],
         res |-> "ok", incidental |-> incidental, all_popped |-> all_popped]

PopPatches(t, should_pop) ==
    LET first_pop_pos == PositionIn(t.applied, should_pop)
        all_popped == IF first_pop_pos # 0
                      THEN SubSeq(t.applied, first_pop_pos, Len(t.applied))
                      ELSE <<>>
        kept == IF first_pop_pos # 0
                THEN SubSeq(t.applied, 1, first_pop_pos - 1)
                ELSE t.applied
        incidental == FilterOut(all_popped, should_pop)
        requested == FilterIn(all_popped, should_pop)
    IN  [t |-> [t EXCEPT !.applied = kept,
                         !.unapplied = incidental \o requested \o @],
         res |-> "ok", incidental |-> incidental, all_popped |-> all_popped]

\* a delete_patches that leaves the hidden list alone
DeletePatchesNotHidden(t, should_delete) ==
    LET first_pop_pos == PositionIn(t.applied, should_delete)
        all_popped == IF first_pop_pos # 0
                      THEN SubSeq(t.applied, first_pop_pos, Len(t.applied))
                      ELSE <<>>
        kept == IF first_pop_pos # 0
                THEN SubSeq(t.applied, 1, first_pop_pos - 1)
                ELSE t.applied
        incidental == FilterOut(all_popped, should_delete)
        deleted == (Range(all_popped) \cup Range(t.unapplied)) \cap should_delete
    IN  [t |-> [t EXCEPT !.applied = kept,
                         !.unapplied = incidental \o FilterOut(@, should_delete),
                         !.updated_patches = InsertAll(@, deleted, Tomb)],
         res |-> "ok", incidental |-> incidental]

DeletePatches(t, should_delete) ==
    LET first_pop_pos == PositionIn(t.applied, should_delete)
        all_popped == IF first_pop_pos # 0
                      THEN SubSeq(t.applied, first_pop_pos, Len(t.applied))
                      ELSE <<>>
        kept == IF first_pop_pos # 0
                THEN SubSeq(t.applied, 1, first_pop_pos - 1)
                ELSE t.applied
        incidental == FilterOut(all_popped, should_delete)
        deleted == (Range(all_popped) \cup Range(t.unapplied) \cup Range(t.hidden))
                       \cap should_delete
    IN  [t |-> [t EXCEPT !.applied = kept,
                         !.unapplied = incidental \o FilterOut(@, should_delete),
                         !.hidden = FilterOut(@, should_delete),
                         !.updated_patches = InsertAll(@, deleted, Tomb)],
         res |-> "ok", incidental |-> incidental]

UncommitPatches(t, patches) ==
    LET names == [i \in 1..Len(patches) |-> patches[i].patchname]
        ups == [pn \in DOMAIN t.updated_patches \cup Range(names) |->
                  IF pn \in Range(names)
                  THEN patches[CHOOSE i \in 1..Len(patches) :
                                  /\ patches[i].patchname = pn
                                  /\ \A j \in (i+1)..Len(patches) :
                                        patches[j].patchname # pn].commit
                  ELSE t.updated_patches[pn]]
    IN  Ok([t EXCEPT !.updated_patches = ups, !.applied = names \o @])

RenamePatch(t, old_patchname, new_patchname) ==
    LET colliding == StackCollides(new_patchname)
        pass == IF colliding
                THEN new_patchname \in DOMAIN t.updated_patches
                     /\ t.updated_patches[new_patchname] = Tomb
                ELSE StackHasPatch(old_patchname)
        t1 == IF Contains(t.applied, old_patchname)
              THEN [t EXCEPT !.applied[Position(t.applied, old_patchname)] = new_patchname]
              ELSE IF Contains(t.unapplied, old_patchname)
              THEN [t EXCEPT !.unapplied[Position(t.unapplied, old_patchname)] = new_patchname]
              ELSE [t EXCEPT !.hidden[Position(t.hidden, old_patchname)] = new_patchname]
    IN  IF new_patchname = old_patchname THEN Ok(t)
        ELSE IF ~pass THEN Err(t)
        ELSE IF old_patchname \notin AllPatches(t) THEN Panic(t)
        ELSE IF ~StackHasPatch(old_patchname) THEN Panic(t1)
        ELSE Ok([t1 EXCEPT !.updated_patches =
                    Insert(Insert(@, old_patchname, Tomb), new_patchname,
                           StackGetPatch(old_patchname))])

-----------------------------------------------------------------------------
(* push_patches: the temp index, and what the external git commands answer *)

\* what the git commands of one push answer: git apply refuses a diff that a
\* merge could take (apply), read-tree refuses to touch a dirty worktree (rtc),
\* the recursive merge fails hard (merge_err)
EnvOk == [apply |-> TRUE, rtc |-> TRUE, merge_err |-> FALSE]

EnvChoices == {EnvOk,
               [apply |-> FALSE, rtc |-> TRUE, merge_err |-> FALSE],
               [apply |-> FALSE, rtc |-> FALSE, merge_err |-> FALSE],
               [apply |-> FALSE, rtc |-> TRUE, merge_err |-> TRUE]}

\* the temp index of with_temp_index: empty, not known to hold any tree
EmptyTempIndex == [id |-> NoTree, actual |-> NoTree]

\* read_tree(tree) when the index is not known to hold it
LoadTempIndex(tix, tree) ==
    IF tix.id # tree THEN [id |-> tree, actual |-> tree] ELSE tix

\* apply_treediff_to_index(from, to) applies to an index holding `actual`:
\* every file the diff changes must have the content the diff starts from
ApplyClean(actual, from, to) ==
    /\ actual # NoTree
    /\ \A i \in 1..Len(from) : to[i] # from[i] => actual[i] = from[i]

ApplyResult(actual, from, to) ==
    [i \in 1..Len(from) |-> IF to[i] # from[i] THEN to[i] ELSE actual[i]]

\* push_patch, the computation of new_tree_id: how it ends, the tree, and the
\* temp index it leaves
PushMerge(use_index_and_worktree, patch_commit, new_parent, already_merged, tix, e) ==
    LET old_parent == patch_commit.parent
        three_way == /\ ~already_merged
                     /\ old_parent.tree # new_parent.tree
                     /\ old_parent.tree # patch_commit.tree
                     /\ new_parent.tree # patch_commit.tree
        swap == tix.id = patch_commit.tree
        ours == IF swap THEN patch_commit.tree ELSE new_parent.tree
        theirs == IF swap THEN new_parent.tree ELSE patch_commit.tree
        base == old_parent.tree
        tix1 == IF three_way THEN LoadTempIndex(tix, ours) ELSE tix
        clean == e.apply /\ ApplyClean(tix1.actual, base, theirs)
        tix2 == IF three_way /\ clean
                THEN [tix1 EXCEPT !.actual = ApplyResult(@, base, theirs)]
                ELSE tix1
        how == IF already_merged THEN "merged"
               ELSE IF ~three_way THEN "fast"
               ELSE IF clean THEN "applied"
               ELSE IF ~use_index_and_worktree THEN "halt_apply"
               ELSE IF ~e.rtc THEN "halt_dirty"
               ELSE IF e.merge_err THEN "halt_merge"
               ELSE IF ConflictFiles(base, ours, theirs) # {} THEN "conflict"
               ELSE "merged_worktree"
        new_tree_id ==
            CASE how = "merged" -> new_parent.tree
              [] how = "fast" ->
                    IF old_parent.tree = new_parent.tree THEN patch_commit.tree
                    ELSE IF old_parent.tree = patch_commit.tree THEN new_parent.tree
                    ELSE patch_commit.tree
              [] how = "applied" -> tix2.actual
              [] how = "merged_worktree" -> Merge3(base, ours, theirs)
              [] OTHER -> ours
    IN  [how |-> how, ours |-> ours, tix |-> tix2, new_tree_id |-> new_tree_id]

\* a push that forgets which tree it has checked out
CurrentTreeAfterForgotten(how, ours, new_tree_id, current) == current

\* a push that checks `ours` out whenever it went through the temp index
CurrentTreeAfterAnyMerge(how, ours, new_tree_id, current) ==
    CASE how \in {"halt_merge", "conflict", "applied"} -> ours
      [] how = "merged_worktree" -> new_tree_id
      [] OTHER -> current

\* push_patch: the tree the worktree holds after read_tree_checkout and the
\* recursive merge, which only run when the temp index could not take the diff
CurrentTreeAfter(how, ours, new_tree_id, current) ==
    CASE how \in {"halt_merge", "conflict"} -> ours
      [] how = "merged_worktree" -> new_tree_id
      [] OTHER -> current

\* a test that looks at the tree only
NeedsNewCommitTreeOnly(new_tree_id, patch_commit, new_parent) ==
    new_tree_id # patch_commit.tree

\* push_patch: whether the patch gets a new commit
NeedsNewCommit(new_tree_id, patch_commit, new_parent) ==
    new_tree_id # patch_commit.tree \/ new_parent # patch_commit.parent

\* push_patch after new_tree_id is known: the worktree merge's effects, the
\* new commit, the move of the patch to applied, and the result
PushFinish(t, patchname, patch_commit, new_parent, m) ==
    LET how == m.how
        new_tree_id == m.new_tree_id
        status0 == CASE how = "merged" -> "AlreadyMerged"
                     [] how = "merged_worktree" -> "Modified"
                     [] how = "conflict" -> "Conflict"
                     [] OTHER -> "Unmodified"
        synthesize == NeedsNewCommit(new_tree_id, patch_commit, new_parent)
        commit == Commit(new_parent, new_tree_id, patch_commit.msg)
        status == IF synthesize /\ status0 \notin {"Conflict", "AlreadyMerged"}
                     /\ new_tree_id = new_parent.tree
                  THEN "Empty" ELSE status0
        in_unapplied == Contains(t.unapplied, patchname)
        \* read_tree_checkout to ours and the recursive merge
        checked_out ==
            [t EXCEPT
               !.current_tree_id = CurrentTreeAfter(how, m.ours, new_tree_id, @),
               !.worktree =
                   CASE how \in {"halt_merge", "conflict"} ->
                          [tree |-> m.ours, conflicts |-> how = "conflict"]
                     [] how = "merged_worktree" ->
                          [tree |-> new_tree_id, conflicts |-> FALSE]
                     [] OTHER -> @]
        pushed ==
            [checked_out EXCEPT
               !.updated_patches = IF synthesize THEN Insert(@, patchname, commit) ELSE @,
               !.updated_head = IF synthesize /\ status0 = "Conflict" THEN commit ELSE @,
               !.options.conflict_mode = IF status = "Conflict" THEN "Allow" ELSE @,
               !.unapplied = IF in_unapplied THEN RemoveAt(@, Position(@, patchname)) ELSE @,
               !.hidden = IF ~in_unapplied /\ Contains(@, patchname)
                          THEN RemoveAt(@, Position(@, patchname)) ELSE @,
               !.applied = Append(@, patchname)]
    IN  IF how \in {"halt_apply", "halt_dirty", "halt_merge"}
        THEN [t |-> checked_out, res |-> "halt", tix |-> m.tix, status |-> "None"]
        ELSE [t |-> pushed,
              res |-> IF status = "Conflict" THEN "halt_conflicts" ELSE "ok",
              tix |-> m.tix, status |-> status]

\* a push_patch that lists the patch as applied before it halts
PushPatchMovingFirst(t, patchname, already_merged, tix, e) ==
    IF ~CanGetPatch(t, patchname)
    THEN [t |-> t, res |-> "panic", tix |-> tix, status |-> "None"]
    ELSE IF GetPatchCommit(t, patchname).parent = NoCommit
    THEN [t |-> t, res |-> "err", tix |-> tix, status |-> "None"]
    ELSE Let1(GetPatchCommit(t, patchname), LAMBDA patch_commit :
         Let1(Top(t), LAMBDA new_parent :
         Let1(PushMerge(t.options.use_index_and_worktree, patch_commit, new_parent,
                        already_merged, tix, e), LAMBDA m :
         Let1(PushFinish(t, patchname, patch_commit, new_parent, m), LAMBDA r :
              IF r.res = "halt"
              THEN [r EXCEPT !.t.applied = Append(@, patchname)]
              ELSE r))))

PushPatch(t, patchname, already_merged, tix, e) ==
    IF ~CanGetPatch(t, patchname)
    THEN [t |-> t, res |-> "panic", tix |-> tix, status |-> "None"]
    ELSE IF GetPatchCommit(t, patchname).parent = NoCommit
    THEN [t |-> t, res |-> "err", tix |-> tix, status |-> "None"]
    ELSE Let1(GetPatchCommit(t, patchname), LAMBDA patch_commit :
         Let1(Top(t), LAMBDA new_parent :
         Let1(PushMerge(t.options.use_index_and_worktree, patch_commit, new_parent,
                        already_merged, tix, e), LAMBDA m :
              PushFinish(t, patchname, patch_commit, new_parent, m))))

\* check_merged: the patches whose reversed diff applies to the branch head's tree
RECURSIVE CheckMergedFrom(_, _, _, _, _)
CheckMergedFrom(t, patchnames, i, tix, merged) ==
    IF i = 0 THEN [res |-> "ok", tix |-> tix, merged |-> merged]
    ELSE IF ~CanGetPatch(t, patchnames[i])
    THEN [res |-> "panic", tix |-> tix, merged |-> merged]
    ELSE
    Let1(GetPatchCommit(t, patchnames[i]), LAMBDA patch_commit :
        IF patch_commit.parent = NoCommit
        THEN [res |-> "err", tix |-> tix, merged |-> merged]
        ELSE IF patch_commit.parent.tree = patch_commit.tree
        THEN CheckMergedFrom(t, patchnames, i - 1, tix, merged)
        ELSE IF ApplyClean(tix.actual, patch_commit.tree, patch_commit.parent.tree)
        THEN Let1([id |-> NoTree,
                   actual |-> ApplyResult(tix.actual, patch_commit.tree,
                                          patch_commit.parent.tree)],
                  LAMBDA tix1 :
                      CheckMergedFrom(t, patchnames, i - 1, tix1,
                                      merged \cup {patchnames[i]}))
        ELSE CheckMergedFrom(t, patchnames, i - 1, tix, merged))

CheckMerged(t, patchnames, tix) ==
    Let1(LoadTempIndex(tix, stack.branch_head.tree), LAMBDA tix1 :
         CheckMergedFrom(t, patchnames, Len(patchnames), tix1, {}))

\* the loop of push_patches; env[k] answers for the k-th patch
RECURSIVE PushFrom(_, _, _, _, _, _, _)
PushFrom(t, patchnames, i, merged, tix, env, statuses) ==
    IF i > Len(patchnames) THEN [t |-> t, res |-> "ok", statuses |-> statuses]
    ELSE Let1(PushPatch(t, patchnames[i], patchnames[i] \in merged, tix,
                        env[IF i <= Len(env) THEN i ELSE Len(env)]),
              LAMBDA r :
                  IF r.res # "ok"
                  THEN [t |-> r.t, res |-> r.res,
                        statuses |-> Append(statuses, r.status)]
                  ELSE PushFrom(r.t, patchnames, i + 1, merged, r.tix, env,
                                Append(statuses, r.status)))

PushPatches(t, patchnames, check_merged, env) ==
    Let1(IF check_merged
         THEN CheckMerged(t, patchnames, EmptyTempIndex)
         ELSE [res |-> "ok", tix |-> EmptyTempIndex, merged |-> {}],
         LAMBDA cm :
             IF cm.res # "ok" THEN [t |-> t, res |-> cm.res, statuses |-> <<>>]
             ELSE PushFrom(t, patchnames, 1, cm.merged, cm.tix, env, <<>>))

-----------------------------------------------------------------------------
(* Methods built from pops and pushes. An Option<&[PatchName]> is <<>> for
   None and <<list>> for Some(list). *)

\* TransactionUserInterface::print_popped: nothing is shown for an empty list
UiPopped(all_popped) ==
    IF all_popped = <<>> THEN <<>>
    ELSE <<[ev |-> "popped", patches |-> all_popped]>>

\* TransactionUserInterface::print_pushed
UiPushed(patchname, status, is_last) ==
    <<[ev |-> "pushed", patch |-> patchname, status |-> status, is_last |-> is_last]>>

\* print_pushed calls that all say the patch is the last one
RECURSIVE UiPushedFromAllLast(_, _, _)
UiPushedFromAllLast(patchnames, statuses, i) ==
    IF i > Len(statuses) THEN <<>>
    ELSE (IF statuses[i] = "None" THEN <<>>
          ELSE UiPushed(patchnames[i], statuses[i], TRUE))
         \o UiPushedFromAllLast(patchnames, statuses, i + 1)

\* the print_pushed calls of one push_patches call: one per patch that got
\* as far as the end of push_patch
RECURSIVE UiPushedFrom(_, _, _)
UiPushedFrom(patchnames, statuses, i) ==
    IF i > Len(statuses) THEN <<>>
    ELSE (IF statuses[i] = "None" THEN <<>>
          ELSE UiPushed(patchnames[i], statuses[i], i = Len(patchnames)))
         \o UiPushedFrom(patchnames, statuses, i + 1)

\* the events of a reorder_patches that never shows the top patch
ReorderUiSilent(t, new_applied, env) ==
    IF new_applied = <<>> THEN <<>>
    ELSE
    LET want == new_applied[1]
        num_common == NumCommon(t.applied, want)
        to_pop == Range(SubSeq(t.applied, num_common + 1, Len(t.applied)))
        to_push == SubSeq(want, num_common + 1, Len(want))
    IN  Let1(PopPatches(t, to_pop), LAMBDA popped :
        Let1(PushPatches(popped.t, to_push, FALSE, env), LAMBDA pushed :
             UiPopped(popped.all_popped)
                 \o UiPushedFrom(to_push, pushed.statuses, 1)))

\* the events reorder_patches hands to the user interface
ReorderUi(t, new_applied, env) ==
    IF new_applied = <<>> THEN <<>>
    ELSE
    LET want == new_applied[1]
        num_common == NumCommon(t.applied, want)
        to_pop == Range(SubSeq(t.applied, num_common + 1, Len(t.applied)))
        to_push == SubSeq(want, num_common + 1, Len(want))
    IN  Let1(PopPatches(t, to_pop), LAMBDA popped :
        Let1(PushPatches(popped.t, to_push, FALSE, env), LAMBDA pushed :
             UiPopped(popped.all_popped)
                 \o UiPushedFrom(to_push, pushed.statuses, 1)
                 \o (IF pushed.res = "ok" /\ pushed.t.applied = want
                        /\ to_push = <<>> /\ want # <<>>
                     THEN UiPushed(Last(want), "Unmodified", TRUE)
                     ELSE <<>>)))

\* reorder_patches after the applied list was dealt with
ReorderRest(r1, new_unapplied, new_hidden) ==
    IF r1.res # "ok" THEN [t |-> r1.t, res |-> r1.res]
    ELSE Ok([r1.t EXCEPT
               !.unapplied = IF new_unapplied # <<>> THEN new_unapplied[1] ELSE @,
               !.hidden = IF new_hidden # <<>> THEN new_hidden[1] ELSE @])

ReorderPatches(t, new_applied, new_unapplied, new_hidden, env) ==
    IF new_applied = <<>> THEN ReorderRest(Ok(t), new_unapplied, new_hidden)
    ELSE
    LET want == new_applied[1]
        num_common == NumCommon(t.applied, want)
        to_pop == Range(SubSeq(t.applied, num_common + 1, Len(t.applied)))
        to_push == SubSeq(want, num_common + 1, Len(want))
    IN  Let1(PopPatches(t, to_pop), LAMBDA popped :
        Let1(PushPatches(popped.t, to_push, FALSE, env), LAMBDA pushed :
             IF pushed.res = "ok" /\ pushed.t.applied # want
             THEN Panic(pushed.t)
             ELSE ReorderRest(pushed, new_unapplied, new_hidden)))

\* commit_patches once the patches to commit are at the bottom of the stack
CommitBottom(t, to_commit, to_push, env) ==
    IF to_commit = <<>> THEN Panic(t)
    ELSE IF ~CanGetPatch(t, Last(to_commit)) THEN Panic(t)
    ELSE IF Len(to_commit) > Len(t.applied) THEN Panic(t)
    ELSE Let1([t EXCEPT !.updated_base = GetPatchCommit(t, Last(to_commit)),
                        !.updated_patches = InsertAll(@, Range(to_commit), Tomb),
                        !.applied = SubSeq(@, Len(to_commit) + 1, Len(@))],
              LAMBDA t2 :
                  Let1(PushPatches(t2, to_push, FALSE, env), LAMBDA repushed :
                       [t |-> repushed.t, res |-> repushed.res]))

CommitPatches(t, to_commit, env) ==
    LET num_common == NumCommon(t.applied, to_commit)
        to_push == FilterOut(SubSeq(t.applied, num_common + 1, Len(t.applied)),
                             Range(to_commit))
    IN  IF num_common < Len(to_commit)
        THEN Let1(PopPatches(t, Range(to_push)), LAMBDA popped :
             Let1(PushPatches(popped.t,
                              SubSeq(to_commit, num_common + 1, Len(to_commit)),
                              FALSE, env), LAMBDA pushed :
                  IF pushed.res # "ok" THEN [t |-> pushed.t, res |-> pushed.res]
                  ELSE CommitBottom(pushed.t, to_commit, to_push, env)))
        ELSE CommitBottom(t, to_commit, <<>>, env)

HidePatches(t, to_hide, env) ==
    ReorderPatches(t,
                   <<FilterOut(t.applied, Range(to_hide))>>,
                   <<FilterOut(t.unapplied, Range(to_hide))>>,
                   <<to_hide \o t.hidden>>,
                   env)

UnhidePatches(t, to_unhide, env) ==
    ReorderPatches(t,
                   <<>>,
                   <<t.unapplied \o to_unhide>>,
                   <<FilterOut(t.hidden, Range(to_unhide))>>,
                   env)

\* StackState::all_patches, in order
StateAllPatches(state) == state.applied \o state.unapplied \o state.hidden

\* a reset_to_state that tombstones nothing
ResetToStateKeepingPatches(t, state) ==
    LET first_parent == state.patches[state.applied[1]].parent
        base == IF state.applied # <<>> THEN first_parent ELSE state.head
    IN  IF state.applied # <<>> /\ first_parent = NoCommit
        THEN Err(t)
        ELSE Ok([t EXCEPT
                   !.updated_base = base,
                   !.updated_head = state.head,
                   !.updated_patches =
                       [pn \in DOMAIN @ \cup DOMAIN state.patches |->
                           IF pn \in DOMAIN state.patches THEN state.patches[pn]
                           ELSE @[pn]],
                   !.applied = state.applied,
                   !.unapplied = state.unapplied,
                   !.hidden = state.hidden])

ResetToState(t, state) ==
    LET tombed == InsertAll(t.updated_patches, AllPatches(t), Tomb)
        first_parent == state.patches[state.applied[1]].parent
        base == IF state.applied # <<>> THEN first_parent ELSE state.head
    IN  IF state.applied # <<>> /\ first_parent = NoCommit
        THEN Err([t EXCEPT !.updated_patches = tombed])
        ELSE Ok([t EXCEPT
                   !.updated_base = base,
                   !.updated_head = state.head,
                   !.updated_patches =
                       [pn \in DOMAIN tombed \cup DOMAIN state.patches |->
                           IF pn \in DOMAIN state.patches THEN state.patches[pn]
                           ELSE tombed[pn]],
                   !.applied = state.applied,
                   !.unapplied = state.unapplied,
                   !.hidden = state.hidden])

\* the loop over to_reset_patches of reset_to_state_partially
RECURSIVE ResetEach(_, _, _, _, _, _)
ResetEach(t, state, to_reset, i, existing, matching) ==
    IF i > Len(to_reset) THEN t
    ELSE IF to_reset[i] \in existing /\ to_reset[i] \in matching
    THEN ResetEach(t, state, to_reset, i + 1, existing, matching)
    ELSE Let1([t EXCEPT
                 !.hidden = IF to_reset[i] \notin existing
                               /\ Contains(state.hidden, to_reset[i])
                            THEN Append(@, to_reset[i]) ELSE @,
                 !.unapplied = IF to_reset[i] \notin existing
                                  /\ ~Contains(state.hidden, to_reset[i])
                               THEN Append(@, to_reset[i]) ELSE @,
                 !.updated_patches = Insert(@, to_reset[i], state.patches[to_reset[i]])],
              LAMBDA t1 : ResetEach(t1, state, to_reset, i + 1, existing, matching))

ResetToStatePartially(t, state, patchnames, env) ==
    LET only_patches == patchnames
        to_reset_patches == FilterIn(StateAllPatches(state), only_patches)
        existing_patches == AllPatches(t)
        original_applied_order == t.applied
        to_delete_patches == (existing_patches \ Range(to_reset_patches))
                                 \cap only_patches
        matching_patches == {pn \in DOMAIN state.patches :
                                HasPatch(t, pn) /\ GetPatchCommit(t, pn) = state.patches[pn]}
        should_pop == {pn \in only_patches :
                          pn \notin to_delete_patches \/ pn \notin matching_patches}
    IN  Let1(PopPatches(t, should_pop), LAMBDA popped :
        Let1(DeletePatches(popped.t, to_delete_patches), LAMBDA deleted :
        Let1(ResetEach(deleted.t, state, to_reset_patches, 1, existing_patches,
                       matching_patches), LAMBDA t3 :
        Let1(PushPatches(t3, FilterIn(original_applied_order,
                                      Range(t3.unapplied) \cup Range(t3.hidden)),
                         FALSE, env), LAMBDA pushed :
             [t |-> pushed.t, res |-> pushed.res]))))

-----------------------------------------------------------------------------
(* The checkout routine and execute() *)

\* Option<&PatchName> of applied.last(): <<>> for None, <<pn>> for Some(pn)
LastOf(s) == IF s = <<>> THEN <<>> ELSE <<Last(s)>>

\* a checkout that never compares the branch head with the stack top
CheckoutAnyHead(stk, opts, tree_id, trans_top, commit, wt, read_tree_ok) ==
    IF tree_id = commit.tree /\ ~opts.discard_changes
    THEN LET check == CASE opts.conflict_mode = "Allow" -> FALSE
                        [] opts.conflict_mode = "AllowIfSameTop" ->
                              trans_top = <<>> \/ trans_top # LastOf(stk.state.applied)
                        [] OTHER -> TRUE
         IN  [ok |-> ~(check /\ wt.conflicts), wt |-> wt,
              ran |-> IF check THEN "status" ELSE "none"]
    ELSE IF opts.discard_changes
    THEN IF read_tree_ok
         THEN [ok |-> TRUE, wt |-> [tree |-> commit.tree, conflicts |-> FALSE],
               ran |-> "read_tree_hard"]
         ELSE [ok |-> FALSE, wt |-> wt, ran |-> "read_tree_hard"]
    ELSE IF read_tree_ok
         THEN [ok |-> TRUE, wt |-> [wt EXCEPT !.tree = commit.tree],
               ran |-> "read_tree"]
         ELSE [ok |-> FALSE, wt |-> wt, ran |-> "read_tree"]

\* checkout(stack, options, current_tree_id, trans_top, commit); read_tree_ok is
\* whether git read-tree succeeds should it run
Checkout(stk, opts, tree_id, trans_top, commit, wt, read_tree_ok) ==
    IF ~opts.allow_bad_head /\ ~IsHeadTop(stk)
    THEN [ok |-> FALSE, wt |-> wt, ran |-> "none"]
    ELSE IF tree_id = commit.tree /\ ~opts.discard_changes
    THEN LET check == CASE opts.conflict_mode = "Allow" -> FALSE
                        [] opts.conflict_mode = "AllowIfSameTop" ->
                              trans_top = <<>> \/ trans_top # LastOf(stk.state.applied)
                        [] OTHER -> TRUE
         IN  [ok |-> ~(check /\ wt.conflicts), wt |-> wt,
              ran |-> IF check THEN "status" ELSE "none"]
    ELSE IF opts.discard_changes
    THEN IF read_tree_ok
         THEN [ok |-> TRUE, wt |-> [tree |-> commit.tree, conflicts |-> FALSE],
               ran |-> "read_tree_hard"]
         ELSE [ok |-> FALSE, wt |-> wt, ran |-> "read_tree_hard"]
    ELSE IF read_tree_ok
         THEN [ok |-> TRUE, wt |-> [wt EXCEPT !.tree = commit.tree],
               ran |-> "read_tree"]
         ELSE [ok |-> FALSE, wt |-> wt, ran |-> "read_tree"]

\* the consistency check at the start of execute()
AuditOk(t) ==
    \A pn \in DOMAIN t.updated_patches :
        IF t.updated_patches[pn] = Tomb
        THEN StackHasPatch(pn)
        ELSE pn \in AllPatches(t)

\* the step of execute() at which an external call fails
ExecFailures == {"none", "log", "checkout", "rollback", "branch",
                 "lock_stack", "lock_patch", "commit"}

\* a reflog message that lost its conflict suffix
ReflogMsgNoSuffix(has_conflicts) == "msg"

\* the reflog message of the refs written under the ref transaction
ReflogMsg(has_conflicts) == IF has_conflicts THEN "msg (CONFLICT)" ELSE "msg"

\* an update of the patch refs that sets the live ones and removes none
UpdatePatchRefsKeepDead(old, updated) ==
    LET live == {pn \in DOMAIN updated : updated[pn] # Tomb}
    IN  [pn \in DOMAIN old \cup live |->
            IF pn \in live THEN updated[pn] ELSE old[pn]]

\* the loop over updated_patches: a live entry sets the patch ref (and the
\* entry of state.patches), a tombstone removes it
UpdatePatchRefs(old, updated) ==
    LET live == {pn \in DOMAIN updated : updated[pn] # Tomb}
        dead == DOMAIN updated \ live
    IN  [pn \in (DOMAIN old \cup live) \ dead |->
            IF pn \in live THEN updated[pn] ELSE old[pn]]

\* ExecuteContext::execute: the references, worktree and result it leaves
ExecuteResult(t, err, db, fail) ==
    LET trans_head == TransHead(t)
        has_conflicts == err = "halt_conflicts"
        external == ~IsHeadTop(stack)
        \* log_external_mods
        stack1 == IF external THEN LogExternalMods(stack, db.stack) ELSE stack
        db1 == IF external
               THEN [db EXCEPT !.stack = StateCommit(stack1.state),
                               !.reflog.stack = "external modifications"]
               ELSE db
        log1 == IF external THEN <<"log_external_mods">> ELSE <<>>
        \* checkout to the transaction head, and the rollback checkout
        do_checkout == t.options.set_head /\ t.options.use_index_and_worktree
        co == Checkout(stack1, t.options, t.current_tree_id, LastOf(t.applied),
                       trans_head, t.worktree, fail \notin {"checkout", "rollback"})
        rb == Checkout(stack1, [t.options EXCEPT !.allow_bad_head = TRUE],
                       t.current_tree_id, LastOf(t.applied), stack1.branch_head,
                       co.wt, fail # "rollback")
        log2 == IF do_checkout THEN Append(log1, "checkout") ELSE log1
        wt2 == IF do_checkout THEN co.wt ELSE t.worktree
        \* branch.set_target and stack.update_head
        db3 == IF t.options.set_head
               THEN [db1 EXCEPT !.branch = trans_head, !.reflog.branch = "msg"]
               ELSE db1
        stack3 == IF t.options.set_head
                  THEN [stack1 EXCEPT !.branch_head = trans_head]
                  ELSE stack1
        log3 == IF t.options.set_head THEN Append(log2, "set_branch") ELSE log2
        \* the ref transaction
        reflog_msg == ReflogMsg(has_conflicts)
        patches == UpdatePatchRefs(stack3.state.patches, t.updated_patches)
        patch_refs == UpdatePatchRefs(db3.patch, t.updated_patches)
        state == [prev |-> db3.stack, head |-> trans_head,
                  applied |-> t.applied, unapplied |-> t.unapplied,
                  hidden |-> t.hidden, patches |-> patches]
        db4 == [db3 EXCEPT !.stack = StateCommit(state), !.patch = patch_refs,
                           !.reflog.stack = reflog_msg,
                           !.reflog.patch = IF DOMAIN t.updated_patches # {}
                                            THEN reflog_msg ELSE @]
        stack4 == [stack3 EXCEPT !.state = state]
        log4 == log3 \o <<"patch_refs", "stack_ref", "commit">>
        Out(result, d, w, l, stk) ==
            [result |-> result, refs |-> d, worktree |-> w, log |-> l, stack |-> stk]
    IN  IF ~AuditOk(t) THEN Out("panic", db, t.worktree, <<>>, NoCommit)
        ELSE IF err = "err" THEN Out("err", db, t.worktree, <<>>, NoCommit)
        ELSE IF external /\ fail = "log"
        THEN Out("err_log", db, t.worktree, <<>>, NoCommit)
        ELSE IF do_checkout /\ ~co.ok
        THEN IF rb.ok
             THEN Out("err_rolled_back", db1, rb.wt,
                      log1 \o <<"checkout", "rollback_checkout">>, NoCommit)
             ELSE Out("err_rollback", db1, rb.wt,
                      log1 \o <<"checkout", "rollback_checkout">>, NoCommit)
        ELSE IF t.options.set_head /\ fail = "branch"
        THEN Out("err_branch", db1, wt2, log2, NoCommit)
        ELSE IF fail = "lock_stack" \/ (fail = "lock_patch" /\ DOMAIN t.updated_patches # {})
        THEN Out("err_lock", db3, wt2, log3, NoCommit)
        ELSE IF fail = "commit"
        THEN Out("err_commit", db3, wt2, log3, NoCommit)
        ELSE IF err # "none"
        THEN Out(err, db4, wt2, log4, NoCommit)
        ELSE Out("ok", db4, wt2, log4, stack4)

-----------------------------------------------------------------------------
(* The repository the transaction starts from *)

\* history below the stack: a root commit and the stack base on top of it
RootCommit == Commit(NoCommit, <<0, 0>>, "root")

BaseCommit == Commit(RootCommit, <<0, 0>>, "base")

\* patch a changes the first file; b changes the second; c changes the first
\* file another way, so that it conflicts with a
PatchA == Commit(BaseCommit, <<1, 0>>, "a")

PatchBonA == Commit(PatchA, <<1, 1>>, "b")

PatchBonBase == Commit(BaseCommit, <<0, 1>>, "b")

PatchC == Commit(BaseCommit, <<2, 0>>, "c")

\* the stack states a transaction may start from; prev and head are set by Init
InitialStates ==
    { [applied |-> <<"a">>, unapplied |-> <<"b", "c">>, hidden |-> <<>>,
       patches |-> [pn \in {"a", "b", "c"} |->
                      CASE pn = "a" -> PatchA [] pn = "b" -> PatchBonBase
                        [] OTHER -> PatchC]],
      [applied |-> <<"a", "b">>, unapplied |-> <<>>, hidden |-> <<"c">>,
       patches |-> [pn \in {"a", "b", "c"} |->
                      CASE pn = "a" -> PatchA [] pn = "b" -> PatchBonA
                        [] OTHER -> PatchC]] }

\* the top commit of a stack state whose first applied patch sits on BaseCommit
StateTop(st) ==
    IF st.applied = <<>> THEN BaseCommit ELSE st.patches[Last(st.applied)]

\* a commit made on the branch by another tool, on top of the stack
ExternalCommit(top) == Commit(top, [top.tree EXCEPT ![2] = 2], "external")

\* names of patches a transaction may create
NewNames == {"n"}

Names == {"a", "b", "c"} \cup NewNames

\* trees of the new commits handed to the transaction: the parent's tree (an
\* empty patch) or a change of the second file
NewTrees(tree) == {tree, [tree EXCEPT ![2] = 2 - @]}

\* earlier stack states handed to reset_to_state: the stack before patch b was
\* applied, and the stack with only patch c applied
TargetStates ==
    { [prev |-> NoCommit, head |-> PatchA,
       applied |-> <<"a">>, unapplied |-> <<"b">>, hidden |-> <<>>,
       patches |-> [pn \in {"a", "b"} |->
                      IF pn = "a" THEN PatchA ELSE PatchBonBase]],
      [prev |-> NoCommit, head |-> PatchC,
       applied |-> <<"c">>, unapplied |-> <<>>, hidden |-> <<>>,
       patches |-> [pn \in {"c"} |-> PatchC]] }

ConflictModes == {"Allow", "AllowIfSameTop", "Disallow"}

\* The options the builder may have set. An option that no code reads under
\* the other options keeps its default: discard_changes, allow_bad_head and
\* conflict_mode are read by the checkout of execute() only, which runs under
\* set_head and use_index_and_worktree; conflict_mode is not read under
\* discard_changes; allow_bad_head only matters when the branch head has moved.
OptionChoices(head_is_top) ==
    {o \in [set_head : BOOLEAN, use_index_and_worktree : BOOLEAN,
            discard_changes : BOOLEAN, allow_bad_head : BOOLEAN,
            conflict_mode : ConflictModes] :
        /\ ~(o.set_head /\ o.use_index_and_worktree) =>
              ~o.discard_changes /\ ~o.allow_bad_head /\ o.conflict_mode = "Disallow"
        /\ o.discard_changes => o.conflict_mode = "Disallow"
        /\ head_is_top => ~o.allow_bad_head}

\* the options of a command that moves the head and updates the work tree
WorktreeOptions ==
    [set_head |-> TRUE, use_index_and_worktree |-> TRUE, discard_changes |-> FALSE,
     allow_bad_head |-> FALSE, conflict_mode |-> "Disallow"]

\* TransactionBuilder::transact: the transaction before the body runs
Init ==
    \E st \in InitialStates, head_is_top \in BOOLEAN :
    \E opts \in OptionChoices(head_is_top) :
        LET top == StateTop(st)
            branch_head == IF head_is_top THEN top ELSE ExternalCommit(top)
            state == [prev |-> NoCommit, head |-> top,
                      applied |-> st.applied, unapplied |-> st.unapplied,
                      hidden |-> st.hidden, patches |-> st.patches]
        IN  /\ stack = [branch_head |-> branch_head, base |-> BaseCommit,
                        state |-> state]
            /\ refs = [branch |-> branch_head, stack |-> StateCommit(state),
                       patch |-> st.patches,
                       reflog |-> [branch |-> "none", stack |-> "none",
                                   patch |-> "none"]]
            /\ applied = st.applied
            /\ unapplied = st.unapplied
            /\ hidden = st.hidden
            /\ updated_patches = <<>>
            /\ updated_head = NoCommit
            /\ updated_base = NoCommit
            /\ current_tree_id = branch_head.tree
            /\ error = "none"
            /\ options = opts
            /\ worktree = [tree |-> branch_head.tree, conflicts |-> FALSE]
            /\ phase = "body"
            /\ nops = 0
            /\ budget = IF head_is_top /\ opts = WorktreeOptions
                        THEN MaxOpsDeep ELSE MaxOps
            /\ exec = [result |-> "none", log |-> <<>>, stack |-> NoCommit]

-----------------------------------------------------------------------------
(* The transaction body: one action per mutation method. A method that returns
   an error ends the body, which hands the error to the transaction. *)

\* what the git commands answer for the successive pushes of one call
EnvSeqs == {<<e1, e2>> : e1 \in EnvChoices, e2 \in EnvChoices}

\* the same, when every push of the call gets the same answers
EnvSame == {<<e>> : e \in EnvChoices}

InBody == phase = "body" /\ nops < budget

\* the transaction as a method left it, and the error it handed to the body;
\* the outcome is evaluated once
Stored(outcome) ==
    \E r \in {outcome} :
        /\ applied' = r.t.applied
        /\ unapplied' = r.t.unapplied
        /\ hidden' = r.t.hidden
        /\ updated_patches' = r.t.updated_patches
        /\ updated_head' = r.t.updated_head
        /\ updated_base' = r.t.updated_base
        /\ current_tree_id' = r.t.current_tree_id
        /\ options' = r.t.options
        /\ worktree' = r.t.worktree
        /\ error' = IF r.res \in {"ok", "panic"} THEN error ELSE r.res
        /\ phase' = CASE r.res = "ok" -> "body"
                      [] r.res = "panic" -> "panicked"
                      [] OTHER -> "ready"
        /\ nops' = nops + 1
        /\ UNCHANGED <<stack, budget, exec>>

\* the method `op` returned outcome: it has changed the transaction only
Returned(op, outcome) == Stored(outcome) /\ UNCHANGED refs

\* the patches push_patches and push_tree take: unapplied or hidden ones
Pushable == Range(unapplied) \cup Range(hidden)

DoPushPatches ==
    /\ InBody
    /\ \E patchnames \in NoDupSeqs(Pushable, 2) \ {<<>>},
          check_merged \in BOOLEAN, env \in EnvSeqs :
          Returned("push_patches", PushPatches(T, patchnames, check_merged, env))

DoPushTreePatches ==
    /\ InBody
    /\ \E patchnames \in NoDupSeqs(Pushable, 2) \ {<<>>} :
          Returned("push_tree", PushTreePatches(T, patchnames))

DoPopPatches ==
    /\ InBody
    /\ \E should_pop \in SUBSET Range(applied) :
          Returned("pop_patches", PopPatches(T, should_pop))

DoDeletePatches ==
    /\ InBody
    /\ \E should_delete \in SUBSET AllPatches(T) :
          Returned("delete_patches", DeletePatches(T, should_delete))

DoRenamePatch ==
    /\ InBody
    /\ \E old_patchname \in Names, new_patchname \in Names :
          Returned("rename_patch", RenamePatch(T, old_patchname, new_patchname))

\* the caller names a new patch with a name no patch of the transaction has
DoNewApplied ==
    /\ InBody
    /\ \E patchname \in Names \ AllPatches(T), tree \in NewTrees(Top(T).tree) :
          Returned("new_applied",
                   NewApplied(T, patchname, Commit(Top(T), tree, patchname)))

DoNewUnapplied ==
    /\ InBody
    /\ \E patchname \in Names \ AllPatches(T), tree \in NewTrees(Top(T).tree),
          insert_pos \in 0..Len(unapplied) :
          Returned("new_unapplied",
                   NewUnapplied(T, patchname, Commit(Top(T), tree, patchname),
                                insert_pos))

\* an update_patch that writes the patch ref at once
DoUpdatePatchWritingRef ==
    /\ InBody
    /\ \E patchname \in AllPatches(T) :
          /\ CanGetPatch(T, patchname)
          /\ \E tree \in NewTrees(GetPatchCommit(T, patchname).tree)
                            \ {GetPatchCommit(T, patchname).tree} :
                \E commit \in {[GetPatchCommit(T, patchname) EXCEPT !.tree = tree]} :
                    /\ Stored(UpdatePatch(T, patchname, commit))
                    /\ refs' = [refs EXCEPT !.patch =
                                    UpdatePatchRefs(@, Insert(<<>>, patchname, commit))]

\* the caller replaces a patch's commit by one with another tree on the same parent
DoUpdatePatch ==
    /\ InBody
    /\ \E patchname \in AllPatches(T) :
          /\ CanGetPatch(T, patchname)
          /\ \E tree \in NewTrees(GetPatchCommit(T, patchname).tree)
                            \ {GetPatchCommit(T, patchname).tree} :
                Returned("update_patch",
                         UpdatePatch(T, patchname,
                                     [GetPatchCommit(T, patchname) EXCEPT !.tree = tree]))

\* order-preserving selections of the applied patches
SubSeqsOf(s) == {FilterIn(s, S) : S \in SUBSET Range(s)}

DoCommitPatches ==
    /\ InBody
    /\ \E to_commit \in SubSeqsOf(applied) \ {<<>>}, env \in EnvSame :
          Returned("commit_patches", CommitPatches(T, to_commit, env))

\* the caller turns the stack base into a patch with a new name
DoUncommitPatches ==
    /\ InBody
    /\ Base(T).parent # NoCommit
    /\ \E patchname \in Names \ AllPatches(T) :
          Returned("uncommit_patches",
                   UncommitPatches(T, <<[patchname |-> patchname, commit |-> Base(T)]>>))

DoHidePatches ==
    /\ InBody
    /\ \E to_hide \in NoDupSeqs(Range(applied) \cup Range(unapplied), 2) \ {<<>>},
          env \in EnvSame :
          Returned("hide_patches", HidePatches(T, to_hide, env))

DoUnhidePatches ==
    /\ InBody
    /\ \E to_unhide \in NoDupSeqs(Range(hidden), 2) \ {<<>>} :
          Returned("unhide_patches", UnhidePatches(T, to_unhide, <<EnvOk>>))

\* the caller asks for an arrangement of the applied and unapplied patches
DoReorderPatches ==
    /\ InBody
    /\ \E new_applied \in NoDupSeqs(Range(applied) \cup Range(unapplied), 3),
          env \in EnvSame :
          Returned("reorder_patches",
                   ReorderPatches(T, <<new_applied>>,
                                  <<FilterOut(applied \o unapplied, Range(new_applied))>>,
                                  <<hidden>>, env))

\* the caller moves the boundary between the applied and the unapplied patches
DoRepairAppliedness ==
    /\ InBody
    /\ \E k \in 0..(Len(applied) + Len(unapplied)) :
          Returned("repair_appliedness",
                   RepairAppliedness(T, SubSeq(applied \o unapplied, 1, k),
                                     SubSeq(applied \o unapplied, k + 1,
                                            Len(applied) + Len(unapplied)),
                                     hidden))

DoResetToState ==
    /\ InBody
    /\ \E state \in TargetStates :
          Returned("reset_to_state", ResetToState(T, state))

DoResetToStatePartially ==
    /\ InBody
    /\ \E state \in TargetStates, env \in EnvSame,
          patchnames \in {S \in SUBSET Names : Cardinality(S) <= 2} :
          Returned("reset_to_state_partially",
                   ResetToStatePartially(T, state, patchnames, env))

\* what the body hands to the transaction when it returns: Ok, or an error of
\* its own that is no TransactionHalt; after a method failed, that method's error
BodyErrors == IF phase = "body" THEN {"none", "err"} ELSE {error}

\* transact() stores what the body returned, and execute() runs
Execute ==
    /\ phase \in {"body", "ready"}
    /\ \E err \in BodyErrors, fail \in ExecFailures :
          \E out \in {ExecuteResult(T, err, refs, fail)} :
              /\ error' = err
              /\ refs' = out.refs
              /\ worktree' = out.worktree
              /\ exec' = [result |-> out.result, log |-> out.log, stack |-> out.stack]
    /\ phase' = "done"
    /\ UNCHANGED <<stack, applied, unapplied, hidden, updated_patches,
                   updated_head, updated_base, current_tree_id, options, nops, budget>>

\* the transaction is dropped without execute(): its memory is gone
Drop ==
    /\ phase \in {"body", "ready"}
    /\ phase' = "dropped"
    /\ applied' = <<>>
    /\ unapplied' = <<>>
    /\ hidden' = <<>>
    /\ updated_patches' = <<>>
    /\ updated_head' = NoCommit
    /\ updated_base' = NoCommit
    /\ error' = "none"
    /\ UNCHANGED <<stack, refs, current_tree_id, options, worktree, nops, budget, exec>>

Next ==
    \/ DoPushPatches
    \/ DoPushTreePatches
    \/ DoPopPatches
    \/ DoDeletePatches
    \/ DoRenamePatch
    \/ DoNewApplied
    \/ DoNewUnapplied
    \/ DoUpdatePatch
    \/ DoCommitPatches
    \/ DoUncommitPatches
    \/ DoHidePatches
    \/ DoUnhidePatches
    \/ DoReorderPatches
    \/ DoRepairAppliedness
    \/ DoResetToState
    \/ DoResetToStatePartially
    \/ Execute
    \/ Drop

Spec == Init /\ [][Next]_vars

-----------------------------------------------------------------------------
(* Properties *)

\* the references before the transaction: what the original stack was read from
InitialRefs ==
    [branch |-> stack.branch_head, stack |-> StateCommit(stack.state),
     patch |-> stack.state.patches,
     reflog |-> [branch |-> "none", stack |-> "none", patch |-> "none"]]

\* every mutation method called so far returned Ok
AllReturnedOk == phase = "body"

\* no patch name occurs twice across applied, unapplied and hidden
Disjoint(t) == NoDup(t.applied \o t.unapplied \o t.hidden)

\* C1: after any sequence of mutation methods that each returned Ok, no patch
\* name occurs more than once across applied, unapplied and hidden.
C1_ListsDisjoint == AllReturnedOk => Disjoint(T)

\* the commits the transaction reports for the applied patches form a
\* first-parent chain that starts at base()
FirstParentChain(t) ==
    /\ \A i \in 1..Len(t.applied) : CanGetPatch(t, t.applied[i])
    /\ t.applied # <<>> => GetPatchCommit(t, t.applied[1]).parent = Base(t)
    /\ \A i \in 1..(Len(t.applied) - 1) :
          GetPatchCommit(t, t.applied[i + 1]).parent = GetPatchCommit(t, t.applied[i])

\* C2: after any mutation method returned Ok, the applied patches form a
\* first-parent chain on top of base().
C2_AppliedChain == AllReturnedOk => FirstParentChain(T)

\* the names with a tombstone in updated_patches
Tombstoned(t) == {pn \in DOMAIN t.updated_patches : t.updated_patches[pn] = Tomb}

\* C3: after any mutation method returned Ok, no tombstoned patch name is in
\* applied, unapplied or hidden.
C3_TombstonesAbsent == AllReturnedOk => Tombstoned(T) \cap AllPatches(T) = {}

\* execute() has run
Executed == phase = "done"

\* the three kinds of reference have the values they had before the transaction
RefsUntouched ==
    /\ refs.branch = InitialRefs.branch
    /\ refs.stack = InitialRefs.stack
    /\ refs.patch = InitialRefs.patch

\* C4: when the stored error is not a TransactionHalt, execute() returns that
\* error, no reference has changed, no checkout ran and log_external_mods was
\* not invoked, also when the branch head is not the stack top.
C4_OtherErrorNothingDurable ==
    (Executed /\ error = "err") =>
        /\ exec.result = "err"
        /\ RefsUntouched
        /\ exec.log = <<>>

\* the last n entries of a sequence
Tail_n(s, n) == IF Len(s) <= n THEN s ELSE SubSeq(s, Len(s) - n + 1, Len(s))

\* C5: whenever execute() returns the halt error of a conflicting push with
\* set_head on, it has moved the branch ref to the conflicted patch's new
\* commit (the transaction head), then written the patch refs and the
\* stack-state ref with the reflog message suffixed " (CONFLICT)", then
\* committed the ref transaction.
C5_ConflictHaltPersisted ==
    (Executed /\ exec.result = "halt_conflicts" /\ options.set_head) =>
        /\ Tail_n(exec.log, 4) = <<"set_branch", "patch_refs", "stack_ref", "commit">>
        /\ applied # <<>>
        /\ TransHead(T) = GetPatchCommit(T, Last(applied))
        /\ updated_head = TransHead(T)
        /\ refs.branch = TransHead(T)
        /\ refs.stack.head = TransHead(T)
        /\ refs.stack.applied = applied
        /\ \A pn \in DOMAIN updated_patches \ Tombstoned(T) :
              pn \in DOMAIN refs.patch /\ refs.patch[pn] = updated_patches[pn]
        /\ refs.reflog.stack = "msg (CONFLICT)"
        /\ refs.reflog.patch = "msg (CONFLICT)"

\* C5 witness: a push that ran into a merge conflict on top of a changed head,
\* and execute() returned its halt error
C5_Witness ==
    /\ Executed
    /\ exec.result = "halt_conflicts"
    /\ options.set_head
    /\ worktree.conflicts
    /\ refs.branch # InitialRefs.branch

\* C6: when the stored error is TransactionHalt{conflicts=false}, execute()
\* rolls back: afterwards the branch ref, the stack-state ref and the patch refs
\* are as they were before the transaction (stated for a stack whose branch
\* head is its top, where log_external_mods does not run; a stack-state ref
\* rewritten with the same head, lists and patches counts as rolled back).
C6_HaltRollsBack ==
    (Executed /\ error = "halt" /\ IsHeadTop(stack)) =>
        /\ refs.branch = InitialRefs.branch
        /\ refs.patch = InitialRefs.patch
        /\ [refs.stack EXCEPT !.prev = InitialRefs.stack.prev] = InitialRefs.stack

\* C7: when locking the stack-state ref or a patch ref fails, execute() returns
\* an error and no reference has been written (stated for a stack whose branch
\* head is its top, where log_external_mods does not run).
C7_LockFailureWritesNothing ==
    (Executed /\ exec.result = "err_lock" /\ IsHeadTop(stack)) => RefsUntouched

\* C8: when the checkout to the transaction head fails, execute() retries a
\* checkout back to the pre-transaction head, returns an error and leaves the
\* references as they were before execute() was called.
C8_CheckoutFailureRefsUntouched ==
    (Executed /\ exec.result \in {"err_rolled_back", "err_rollback"}) =>
        /\ Tail_n(exec.log, 2) = <<"checkout", "rollback_checkout">>
        /\ RefsUntouched

\* C9: no mutation method changes a reference: until execute() runs, and after
\* a drop without execute(), every reference has its pre-transaction value.
C9_MutationsKeepRefs == ~Executed => refs = InitialRefs

\* C9 witness: a transaction was dropped after its body had called as many
\* mutation methods as it may, the last of them ending the body with an error
C9_Witness ==
    /\ phase = "dropped"
    /\ nops = MaxOps
    /\ refs = InitialRefs

\* the state commit the stack ref points to when the ref transaction starts
PrevStateCommit ==
    IF IsHeadTop(stack) THEN InitialRefs.stack
    ELSE StateCommit(LogExternalMods(stack, InitialRefs.stack).state)

\* C10: after execute() returns Ok the persisted state is the transaction's
\* view: lists, head, the patch refs and state.patches (exactly the listed
\* names, at the commits the transaction reports), no ref for a tombstoned
\* name, and prev is the state commit the stack ref pointed to before.
C10_PersistedEqualsView ==
    (Executed /\ exec.result = "ok") =>
        /\ exec.stack.state.applied = applied
        /\ exec.stack.state.unapplied = unapplied
        /\ exec.stack.state.hidden = hidden
        /\ exec.stack.state.head = TransHead(T)
        /\ DOMAIN refs.patch = AllPatches(T)
        /\ DOMAIN exec.stack.state.patches = AllPatches(T)
        /\ \A pn \in AllPatches(T) :
              /\ CanGetPatch(T, pn)
              /\ refs.patch[pn] = GetPatchCommit(T, pn)
              /\ exec.stack.state.patches[pn] = GetPatchCommit(T, pn)
        /\ Tombstoned(T) \cap DOMAIN refs.patch = {}
        /\ exec.stack.state.prev = PrevStateCommit
        /\ refs.stack = StateCommit(exec.stack.state)

\* C10 witness: execute() returned Ok for a transaction that tombstoned a
\* patch, gave another name a commit, and started from a moved branch head
C10_Witness ==
    /\ Executed
    /\ exec.result = "ok"
    /\ Tombstoned(T) # {}
    /\ DOMAIN updated_patches \ Tombstoned(T) # {}
    /\ ~IsHeadTop(stack)

\* names that neither the original stack nor the transaction has used
FreshNames(t) ==
    Names \ (DOMAIN stack.state.patches \cup AllPatches(t) \cup DOMAIN t.updated_patches)

\* the patches of the original stack that the transaction still lists
OriginalPatches(t) == {pn \in AllPatches(t) : StackHasPatch(pn) /\ HasPatch(t, pn)}

\* C11: for a patch p of the original stack and a fresh name q,
\* rename_patch(p, q) followed by rename_patch(q, p) both return Ok and leave
\* the transaction as it was: same lists in the same order, same updated_patches.
C11_RenameRoundTrip ==
    AllReturnedOk =>
        \A p \in OriginalPatches(T), q \in FreshNames(T) :
            LET r1 == RenamePatch(T, p, q)
                r2 == RenamePatch(r1.t, q, p)
            IN  /\ r1.res = "ok"
                /\ r2.res = "ok"
                /\ r2.t = T

\* C12: rename_patch(old, new) with old # new returns an error and leaves the
\* transaction unchanged whenever new is a live patch of the transaction or old
\* is not one; it never panics and never puts a name twice in the lists.
C12_RenameRejects ==
    AllReturnedOk =>
        \A old \in Names : \A new \in Names \ {old} :
            LET r == RenamePatch(T, old, new)
            IN  /\ r.res # "panic"
                /\ Disjoint(T) => Disjoint(r.t)
                /\ (HasPatch(T, new) \/ ~HasPatch(T, old)) =>
                      r.res = "err" /\ r.t = T

\* reorder_patches called with the transaction's own three lists
ReorderCurrent(t, env) ==
    ReorderPatches(t, <<t.applied>>, <<t.unapplied>>, <<t.hidden>>, env)

\* C13 as stated: reorder_patches with the current applied, unapplied and
\* hidden lists changes nothing and emits no UI event, whether applied is
\* empty or not.
C13_ReorderCurrentSilent ==
    AllReturnedOk =>
        \A env \in EnvSame :
            /\ ReorderCurrent(T, env) = Ok(T)
            /\ ReorderUi(T, <<applied>>, env) = <<>>

\* C13 amended: reorder_patches with the current lists changes nothing in the
\* transaction; it emits no UI event when applied is empty, and exactly one
\* print_pushed(last applied patch, Unmodified, is_last) when it is not.
C13_ReorderCurrentNoOp ==
    AllReturnedOk =>
        \A env \in EnvSame :
            /\ ReorderCurrent(T, env) = Ok(T)
            /\ ReorderUi(T, <<applied>>, env) =
                  IF applied = <<>> THEN <<>>
                  ELSE UiPushed(Last(applied), "Unmodified", TRUE)

\* C13 witness: a transaction that has changed patches and still has applied
\* ones, on which reorder_patches with the current lists returns Ok
C13_Witness ==
    /\ AllReturnedOk
    /\ nops > 0
    /\ applied # <<>>
    /\ updated_patches # <<>>
    /\ \E env \in EnvSame : ReorderCurrent(T, env).res = "ok"

\* the predicates that are false for every patch the transaction lists
FalsePredicates(t) == SUBSET (Names \ AllPatches(t))

\* C14: pop_patches and delete_patches with a predicate that is false for
\* every patch leave applied, unapplied, hidden and updated_patches as they
\* are, in the same order, and return an empty incidental list.
C14_FalsePredicateNoOp ==
    AllReturnedOk =>
        \A never \in FalsePredicates(T) :
            /\ PopPatches(T, never).t = T
            /\ PopPatches(T, never).res = "ok"
            /\ PopPatches(T, never).incidental = <<>>
            /\ DeletePatches(T, never).t = T
            /\ DeletePatches(T, never).res = "ok"
            /\ DeletePatches(T, never).incidental = <<>>

\* C14 witness: a transaction with patches in all three lists and changed
\* patches, on which both calls return Ok with a predicate that selects none
C14_Witness ==
    /\ AllReturnedOk
    /\ nops > 0
    /\ applied # <<>> /\ unapplied # <<>> /\ hidden # <<>>
    /\ updated_patches # <<>>
    /\ PopPatches(T, {}).res = "ok"
    /\ DeletePatches(T, {}).res = "ok"

\* push_patches of the one patch p, then pop_patches(== p) if the push succeeded
PushThenPop(t, p, check_merged, env) ==
    Let1(PushPatches(t, <<p>>, check_merged, env), LAMBDA pushed :
         IF pushed.res = "ok" THEN PopPatches(pushed.t, {p}) ELSE pushed)

SameNameSets(t1, t2) ==
    /\ Range(t1.applied) = Range(t2.applied)
    /\ Range(t1.unapplied) = Range(t2.unapplied)
    /\ Range(t1.hidden) = Range(t2.hidden)

\* C15 as stated: for a patch p in unapplied or in hidden, a successful push
\* of p followed by pop_patches(== p) leaves the name-sets of applied,
\* unapplied and hidden as they were before the push.
C15_PushPopRestores ==
    AllReturnedOk =>
        \A p \in Range(unapplied) \cup Range(hidden) :
            \A check_merged \in BOOLEAN, env \in EnvSame :
                Let1(PushThenPop(T, p, check_merged, env), LAMBDA r :
                     r.res = "ok" => SameNameSets(r.t, T))

\* the same for the states whose lists share no name, with hidden patches
\* moving to unapplied
PushPopOnDisjointLists ==
    (AllReturnedOk /\ Disjoint(T)) =>
        \A p \in Range(unapplied) \cup Range(hidden) :
            \A check_merged \in BOOLEAN, env \in EnvSame :
                Let1(PushThenPop(T, p, check_merged, env), LAMBDA r :
                     r.res = "ok" =>
                        IF p \in Range(unapplied)
                        THEN SameNameSets(r.t, T)
                        ELSE /\ Range(r.t.applied) = Range(applied)
                             /\ Range(r.t.unapplied) = Range(unapplied) \cup {p}
                             /\ Range(r.t.hidden) = Range(hidden) \ {p})

\* the patches push_patches can push one at a time: listed as unapplied or
\* hidden, with a commit that has a parent
SinglePushes(t) ==
    {p \in Range(t.unapplied) \cup Range(t.hidden) :
        CanGetPatch(t, p) /\ GetPatchCommit(t, p).parent # NoCommit}

\* C16: a push gives the patch a new commit exactly when the resulting tree
\* differs from the patch's tree or the current top differs from the patch's
\* first parent. A patch not detected as merged whose first parent is the
\* current top keeps its commit: updated_patches gets no entry, top() becomes
\* that commit and the status is Unmodified. In every other successful push
\* the patch's new commit has the previous top as its parent.
C16_CommitSynthesis ==
    AllReturnedOk =>
        \A p \in SinglePushes(T) : \A check_merged \in BOOLEAN, env \in EnvSame :
            Let1(PushPatches(T, <<p>>, check_merged, env), LAMBDA r :
                r.res = "ok" =>
                    LET old == GetPatchCommit(T, p)
                        new == GetPatchCommit(r.t, p)
                        merged == r.statuses[1] = "AlreadyMerged"
                        kept == r.t.updated_patches = updated_patches
                    IN  /\ CanGetPatch(r.t, p)
                        /\ kept <=> ~(new.tree # old.tree \/ Top(T) # old.parent)
                        /\ (~merged /\ old.parent = Top(T)) =>
                              /\ kept
                              /\ Top(r.t) = old
                              /\ r.statuses = <<"Unmodified">>
                        /\ ~(~merged /\ old.parent = Top(T)) =>
                              /\ ~kept
                              /\ new # old
                              /\ new = r.t.updated_patches[p]
                              /\ new.parent = Top(T))

\* C16 witness: a transaction that can push one patch on its first parent,
\* keeping its commit, and another on a different top, with a new commit
C16_Witness ==
    /\ AllReturnedOk
    /\ nops > 0
    /\ \E p \in SinglePushes(T) :
          /\ GetPatchCommit(T, p).parent = Top(T)
          /\ PushPatches(T, <<p>>, FALSE, <<EnvOk>>).res = "ok"
          /\ PushPatches(T, <<p>>, FALSE, <<EnvOk>>).t.updated_patches = updated_patches
    /\ \E p \in SinglePushes(T) :
          /\ GetPatchCommit(T, p).parent # Top(T)
          /\ PushPatches(T, <<p>>, FALSE, <<EnvOk>>).res = "ok"
          /\ PushPatches(T, <<p>>, FALSE, <<EnvOk>>).t.updated_patches[p].parent = Top(T)

\* the unapplied patches whose tree is their first parent's tree
EmptyPatches(t) ==
    {p \in SinglePushes(t) \cap Range(t.unapplied) :
        GetPatchCommit(t, p).tree = GetPatchCommit(t, p).parent.tree}

\* C17: pushing, with check_merged off, an unapplied patch whose tree equals
\* its first parent's tree reports the status Empty, wherever the current top
\* is, also when the patch's first parent is the current top.
C17_EmptyPatchStatus ==
    AllReturnedOk =>
        \A p \in EmptyPatches(T) : \A env \in EnvSame :
            Let1(PushPatches(T, <<p>>, FALSE, env), LAMBDA r :
                 r.res = "ok" /\ r.statuses = <<"Empty">>)

\* the same for the pushes onto a top that is not the patch's first parent
EmptyPatchOnOtherTop ==
    AllReturnedOk =>
        \A p \in EmptyPatches(T) : \A env \in EnvSame :
            Let1(PushPatches(T, <<p>>, FALSE, env), LAMBDA r :
                 /\ r.res = "ok"
                 /\ r.statuses = IF GetPatchCommit(T, p).parent = Top(T)
                                 THEN <<"Unmodified">> ELSE <<"Empty">>)

EmptyPatchOnOtherTopSeen ==
    /\ AllReturnedOk
    /\ \E p \in EmptyPatches(T) : GetPatchCommit(T, p).parent # Top(T)

\* how the push of p ends when the temp index is `tix` and git answers e
PushHow(t, p, tix, e) ==
    PushMerge(t.options.use_index_and_worktree, GetPatchCommit(t, p), Top(t),
              FALSE, tix, e).how

\* what C18 says of one push_patch call that took t to r
CleanApplyFrame(t, p, r) ==
    /\ r.res = "ok"
    /\ r.t.worktree = t.worktree
    /\ r.t.current_tree_id = t.current_tree_id
    /\ r.t.applied = Append(t.applied, p)
    /\ p \in DOMAIN r.t.updated_patches
    /\ r.t.updated_patches[p] \notin {Tomb, GetPatchCommit(t, p)}
    /\ r.t.updated_patches[p].parent = Top(t)

\* C18: when a push needs a three-way merge and the tree-diff applies cleanly
\* in the temp index, push_patch leaves the worktree and current_tree_id as
\* they are, and the patch becomes the last applied patch, with a new commit
\* whose parent is the previous top. Checked for the first and for the second
\* patch of a push_patches call, the second finding the temp index as the
\* first left it.
C18_CleanApplyTouchesNothing ==
    AllReturnedOk =>
        \A p \in SinglePushes(T) : \A e \in EnvChoices :
            Let1(PushPatch(T, p, FALSE, EmptyTempIndex, e), LAMBDA r1 :
                /\ PushHow(T, p, EmptyTempIndex, e) = "applied" =>
                      CleanApplyFrame(T, p, r1)
                /\ r1.res = "ok" =>
                      \A q \in SinglePushes(r1.t) : \A e2 \in EnvChoices :
                          PushHow(r1.t, q, r1.tix, e2) = "applied" =>
                              CleanApplyFrame(r1.t, q,
                                  PushPatch(r1.t, q, FALSE, r1.tix, e2)))

\* C18 witness: a transaction with the worktree in use, in which the diff of
\* some patch applies cleanly to a top that is not its first parent
C18_Witness ==
    /\ AllReturnedOk
    /\ nops > 0
    /\ options.use_index_and_worktree
    /\ \E p \in SinglePushes(T) :
          /\ PushHow(T, p, EmptyTempIndex, EnvOk) = "applied"
          /\ PushPatch(T, p, FALSE, EmptyTempIndex, EnvOk).res = "ok"
          /\ PushPatch(T, p, FALSE, EmptyTempIndex, EnvOk).t.current_tree_id
                 # Top(T).tree

\* what C19 says of one push_patch call that took t to r
ConflictFrame(t, p, r) ==
    /\ r.res = "halt_conflicts"
    /\ r.status = "Conflict"
    /\ r.t.applied = Append(t.applied, p)
    /\ p \in DOMAIN r.t.updated_patches
    /\ r.t.updated_patches[p] \notin {Tomb, GetPatchCommit(t, p)}
    /\ r.t.updated_patches[p].parent = Top(t)
    /\ r.t.updated_head = r.t.updated_patches[p]
    /\ r.t.current_tree_id = Top(t).tree
    /\ r.t.options.conflict_mode = "Allow"

\* C19: when the worktree merge of a push reports conflicts, the patch is
\* appended to applied with a new commit whose parent is the previous top,
\* updated_head is that commit, current_tree_id is the previous top's tree,
\* conflict_mode is Allow, the status is Conflict and the push halts with
\* conflicts. Checked for the first and for the second patch of a
\* push_patches call, the second finding the temp index as the first left it.
C19_ConflictHalt ==
    AllReturnedOk =>
        \A p \in SinglePushes(T) : \A e \in EnvChoices :
            Let1(PushPatch(T, p, FALSE, EmptyTempIndex, e), LAMBDA r1 :
                /\ PushHow(T, p, EmptyTempIndex, e) = "conflict" =>
                      ConflictFrame(T, p, r1)
                /\ r1.res = "ok" =>
                      \A q \in SinglePushes(r1.t) : \A e2 \in EnvChoices :
                          PushHow(r1.t, q, r1.tix, e2) = "conflict" =>
                              ConflictFrame(r1.t, q,
                                  PushPatch(r1.t, q, FALSE, r1.tix, e2)))

\* the same for the first patch of a call only, which finds the temp index empty
ConflictHaltOnFirstPush ==
    AllReturnedOk =>
        \A p \in SinglePushes(T) : \A e \in EnvChoices :
            PushHow(T, p, EmptyTempIndex, e) = "conflict" =>
                ConflictFrame(T, p, PushPatch(T, p, FALSE, EmptyTempIndex, e))

ConflictHaltOnFirstPushSeen ==
    /\ AllReturnedOk
    /\ nops > 0
    /\ \E p \in SinglePushes(T) : \E e \in EnvChoices :
          PushHow(T, p, EmptyTempIndex, e) = "conflict"

\* the body has ended with the conflict halt of a push
HaltedWithConflicts == phase = "ready" /\ error = "halt_conflicts"

\* the checkout call of execute() in the current state
ExecuteCheckout(read_tree_ok) ==
    Checkout(IF IsHeadTop(stack) THEN stack ELSE LogExternalMods(stack, refs.stack),
             options, current_tree_id, LastOf(applied), TransHead(T), worktree,
             read_tree_ok)

\* C20: once push_patches has halted with conflicts and the body does nothing
\* more, the transaction head's tree is current_tree_id and conflict_mode is
\* Allow; with discard_changes off the checkout of execute() runs neither a
\* read-tree nor the conflict check, leaves the worktree as it is, and can
\* only fail on a branch head that is not the stack top.
C20_CheckoutKeepsConflicts ==
    HaltedWithConflicts =>
        /\ TransHead(T).tree = current_tree_id
        /\ options.conflict_mode = "Allow"
        /\ ~options.discard_changes =>
              \A read_tree_ok \in BOOLEAN :
                  LET co == ExecuteCheckout(read_tree_ok)
                  IN  /\ co.ran = "none"
                      /\ co.wt = worktree
                      /\ co.ok <=> (options.allow_bad_head \/ IsHeadTop(stack))

\* C20 witness: a push has halted with conflicts, the worktree holds them,
\* discard_changes is off and the checkout of execute() succeeds
C20_Witness ==
    /\ HaltedWithConflicts
    /\ worktree.conflicts
    /\ ~options.discard_changes
    /\ options.set_head
    /\ ExecuteCheckout(TRUE).ok

\* the length of the longest prefix of s that has no element of S
RECURSIVE PrefixOutside(_, _)
PrefixOutside(s, S) ==
    IF s = <<>> \/ s[1] \in S THEN 0 ELSE 1 + PrefixOutside(Tail(s), S)

\* the elements of s outside S, in the order of s
RECURSIVE Without(_, _)
Without(s, S) ==
    IF s = <<>> THEN <<>>
    ELSE (IF s[1] \in S THEN <<>> ELSE <<s[1]>>) \o Without(Tail(s), S)

\* the elements of s in S, in the order of s
RECURSIVE Within(_, _)
Within(s, S) ==
    IF s = <<>> THEN <<>>
    ELSE (IF s[1] \in S THEN <<s[1]>> ELSE <<>>) \o Within(Tail(s), S)

\* the applied patches from the first one in S on
PoppedBy(S) == SubSeq(applied, PrefixOutside(applied, S) + 1, Len(applied))

\* C21: delete_patches(pred) cuts applied before the first applied patch that
\* satisfies pred; the popped patches that do not satisfy pred go, in applied
\* order, to the front of unapplied, followed by the former unapplied patches
\* that do not satisfy pred; every listed patch that satisfies pred leaves its
\* list and is tombstoned in updated_patches; the popped patches that do not
\* satisfy pred are returned.
C21_DeletePatches ==
    AllReturnedOk =>
        \A pred \in SUBSET Names :
            Let1(DeletePatches(T, pred), LAMBDA r :
                /\ r.res = "ok"
                /\ r.t.applied = SubSeq(applied, 1, PrefixOutside(applied, pred))
                /\ r.t.unapplied = Without(PoppedBy(pred), pred) \o Without(unapplied, pred)
                /\ r.t.hidden = Without(hidden, pred)
                /\ \A pn \in pred \cap AllPatches(T) :
                      /\ pn \notin AllPatches(r.t)
                      /\ pn \in DOMAIN r.t.updated_patches
                      /\ r.t.updated_patches[pn] = Tomb
                /\ r.incidental = Without(PoppedBy(pred), pred))

\* C21 witness: a transaction with patches in all three lists from which one
\* delete_patches call pops a patch it keeps and deletes an applied, an
\* unapplied and a hidden patch
C21_Witness ==
    /\ AllReturnedOk
    /\ nops > 0
    /\ \E pred \in SUBSET Names :
          /\ DeletePatches(T, pred).res = "ok"
          /\ DeletePatches(T, pred).incidental # <<>>
          /\ pred \cap Range(applied) # {}
          /\ pred \cap Range(unapplied) # {}
          /\ pred \cap Range(hidden) # {}

\* C23: pop_patches(pred) cuts applied before the first applied patch that
\* satisfies pred; unapplied becomes the popped patches that do not satisfy
\* pred, then the popped patches that satisfy it, both in applied order, then
\* the former unapplied list; hidden and updated_patches are unchanged; the
\* popped patches that do not satisfy pred are returned.
C23_PopPatches ==
    AllReturnedOk =>
        \A pred \in SUBSET Names :
            Let1(PopPatches(T, pred), LAMBDA r :
                /\ r.res = "ok"
                /\ r.t.applied = SubSeq(applied, 1, PrefixOutside(applied, pred))
                /\ r.t.unapplied = Without(PoppedBy(pred), pred)
                                      \o Within(PoppedBy(pred), pred) \o unapplied
                /\ r.t.hidden = hidden
                /\ r.t.updated_patches = updated_patches
                /\ r.incidental = Without(PoppedBy(pred), pred))

\* C23 witness: a transaction with changed patches from which one pop_patches
\* call pops a patch that was asked for and, above it, one that was not, onto
\* a non-empty unapplied list
C23_Witness ==
    /\ AllReturnedOk
    /\ nops > 0
    /\ updated_patches # <<>>
    /\ unapplied # <<>>
    /\ \E pred \in SUBSET Names :
          /\ PopPatches(T, pred).res = "ok"
          /\ PopPatches(T, pred).incidental # <<>>
          /\ PopPatches(T, pred).t.applied # <<>>

\* the patches of names that the transaction lists and the state has
ResetExisting(state, names) ==
    names \cap AllPatches(T) \cap Range(StateAllPatches(state))

\* the patches of names that the state has applied and the transaction lacks
ResetIntroduced(state, names) ==
    (names \cap Range(state.applied)) \ AllPatches(T)

\* C22: after reset_to_state_partially(state, names), a patch of names that
\* exists currently and in the state has the state's commit, and a patch of
\* names that the state has applied and the current stack lacks is in applied,
\* in the state's order.
C22_PartialReset ==
    AllReturnedOk =>
        \A state \in TargetStates, names \in SUBSET Names, env \in EnvSame :
            Let1(ResetToStatePartially(T, state, names, env), LAMBDA r :
                r.res = "ok" =>
                    /\ \A pn \in ResetExisting(state, names) :
                          /\ CanGetPatch(r.t, pn)
                          /\ GetPatchCommit(r.t, pn) = state.patches[pn]
                    /\ \A pn \in ResetIntroduced(state, names) :
                          Contains(r.t.applied, pn)
                    /\ FilterIn(r.t.applied, ResetIntroduced(state, names))
                          = FilterIn(state.applied, ResetIntroduced(state, names)))

\* the part of it about the patches that exist on both sides, with the commit
\* compared by tree where the patch had to be pushed back onto another parent
PartialResetOfExisting ==
    AllReturnedOk =>
        \A state \in TargetStates, names \in SUBSET Names, env \in EnvSame :
            Let1(ResetToStatePartially(T, state, names, env), LAMBDA r :
                r.res = "ok" =>
                    \A pn \in ResetExisting(state, names) :
                        /\ CanGetPatch(r.t, pn)
                        /\ GetPatchCommit(r.t, pn) = state.patches[pn]
                             \/ (/\ Contains(r.t.applied, pn)
                                 /\ GetPatchCommit(r.t, pn).parent # state.patches[pn].parent))

\* what the code does with a patch the current stack lacks: it is listed as
\* unapplied, or as hidden when the state has it hidden, never as applied
PartialResetIntroducesUnapplied ==
    AllReturnedOk =>
        \A state \in TargetStates, names \in SUBSET Names, env \in EnvSame :
            Let1(ResetToStatePartially(T, state, names, env), LAMBDA r :
                r.res = "ok" =>
                    \A pn \in ResetIntroduced(state, names) :
                        /\ ~Contains(r.t.applied, pn)
                        /\ Contains(r.t.unapplied, pn))

PartialResetIntroducesSeen ==
    /\ AllReturnedOk
    /\ \E state \in TargetStates, names \in SUBSET Names, env \in EnvSame :
          /\ ResetToStatePartially(T, state, names, env).res = "ok"
          /\ ResetIntroduced(state, names) # {}

\* the lists of at most two patches that push_patches can be asked to push
PushLists(t) == NoDupSeqs(SinglePushes(t), 2) \ {<<>>}

\* what C24 says of one push_patches(names) call that took t to r
PushedInOrder(t, names, r) ==
    Let1(UiPushedFrom(names, r.statuses, 1), LAMBDA ui :
    Let1(Len(r.statuses), LAMBDA processed :
        /\ processed \in 1..Len(names)
        /\ r.res = "ok" => processed = Len(names) /\ Len(ui) = Len(names)
        /\ r.res # "ok" => Len(ui) \in {processed - 1, processed}
        /\ \A k \in 1..Len(ui) :
              /\ ui[k].ev = "pushed"
              /\ ui[k].patch = names[k]
              /\ ui[k].is_last <=> (k = Len(names))
        /\ r.t.applied = t.applied \o SubSeq(names, 1, Len(r.t.applied) - Len(t.applied))
        /\ Len(r.t.applied) - Len(t.applied) \in {Len(ui), processed}
        /\ r.res # "ok" =>
              \A j \in (processed + 1)..Len(names) :
                  /\ Contains(t.unapplied, names[j]) => Contains(r.t.unapplied, names[j])
                  /\ Contains(t.hidden, names[j]) => Contains(r.t.hidden, names[j])))

\* what the git commands may answer for the pushes of names: every answer for
\* the first push, whose halt leaves a patch behind, and for the last one a
\* diff that applies or one that needs the worktree merge
EnvFor(names) ==
    IF Len(names) = 1 THEN EnvSame
    ELSE {<<e1, e2>> : e1 \in EnvChoices,
                       e2 \in {e \in EnvChoices : e.rtc /\ ~e.merge_err}}

\* C24: push_patches(names) pushes the names in input order and stops at the
\* first halt: it emits one pushed event per pushed patch, in input order,
\* with is_last true for the final element of names only; once the push of
\* names[i] halts, no event is emitted for a later name and the later patches
\* stay in unapplied or hidden.
C24_PushOrder ==
    AllReturnedOk =>
        \A names \in PushLists(T) : \A env \in EnvFor(names) :
            Let1(PushPatches(T, names, FALSE, env), LAMBDA r :
                 PushedInOrder(T, names, r))

\* C24 witness: a transaction in which a push of two patches halts at the
\* first, and another push of two patches pushes both
C24_Witness ==
    /\ AllReturnedOk
    /\ nops > 0
    /\ \E names \in PushLists(T) : \E env \in EnvFor(names) :
          /\ Len(names) = 2
          /\ PushPatches(T, names, FALSE, env).res \in {"halt", "halt_conflicts"}
          /\ Len(PushPatches(T, names, FALSE, env).statuses) = 1
    /\ \E names \in PushLists(T) :
          /\ Len(names) = 2
          /\ PushPatches(T, names, FALSE, <<EnvOk, EnvOk>>).res = "ok"

\* list s with every old replaced by new
Renamed(s, old, new) == [i \in 1..Len(s) |-> IF s[i] = old THEN new ELSE s[i]]

\* C25: after rename_patch(old, new) returns Ok with old # new, new has the
\* list and position old had, old is tombstoned, and the commit the
\* transaction reports for new is the commit it reported for old just before
\* the rename, also when old had been given a new commit earlier in the
\* transaction.
C25_RenameKeepsCommit ==
    AllReturnedOk =>
        \A old \in Names : \A new \in Names \ {old} :
            Let1(RenamePatch(T, old, new), LAMBDA r :
                r.res = "ok" =>
                    /\ r.t.applied = Renamed(applied, old, new)
                    /\ r.t.unapplied = Renamed(unapplied, old, new)
                    /\ r.t.hidden = Renamed(hidden, old, new)
                    /\ old \in DOMAIN r.t.updated_patches
                    /\ r.t.updated_patches[old] = Tomb
                    /\ CanGetPatch(T, old)
                    /\ CanGetPatch(r.t, new)
                    /\ GetPatchCommit(r.t, new) = GetPatchCommit(T, old))

\* the same with the commit the stack had for old before the transaction
RenameTakesStackCommit ==
    (AllReturnedOk /\ Disjoint(T)) =>
        \A old \in Names : \A new \in Names \ {old} :
            Let1(RenamePatch(T, old, new), LAMBDA r :
                r.res = "ok" =>
                    /\ r.t.applied = Renamed(applied, old, new)
                    /\ r.t.unapplied = Renamed(unapplied, old, new)
                    /\ r.t.hidden = Renamed(hidden, old, new)
                    /\ r.t.updated_patches[old] = Tomb
                    /\ GetPatchCommit(r.t, new) = StackGetPatch(old))

\* the k-th first-parent ancestor of a commit
RECURSIVE Ancestor(_, _)
Ancestor(commit, k) ==
    IF k = 0 \/ commit = NoCommit THEN commit ELSE Ancestor(commit.parent, k - 1)

\* base is the commit of the last patch of to_commit once the group sits at
\* the bottom: the patches of to_commit that were at the bottom already keep
\* their commits, and each of the others has, on top of them, a commit with
\* the patch's message
HoldsGroup(t, base, to_commit) ==
    LET bottom == NumCommon(t.applied, to_commit)
    IN  /\ Ancestor(base, Len(to_commit) - bottom) =
               IF bottom = 0 THEN Base(t) ELSE GetPatchCommit(t, to_commit[bottom])
        /\ \A i \in (bottom + 1)..Len(to_commit) :
              /\ Ancestor(base, Len(to_commit) - i) # NoCommit
              /\ Ancestor(base, Len(to_commit) - i).msg
                     = GetPatchCommit(t, to_commit[i]).msg

\* C26: after commit_patches(to_commit) returns Ok for a non-empty
\* subsequence of applied, base() is the commit the last patch of to_commit
\* holds once the group sits at the bottom of the stack, every patch of
\* to_commit is tombstoned and in no list, and applied is the formerly applied
\* patches outside to_commit in their order, the first of them on the new base.
C26_CommitPatches ==
    AllReturnedOk =>
        \A to_commit \in SubSeqsOf(applied) \ {<<>>} : \A env \in EnvSame :
            Let1(CommitPatches(T, to_commit, env), LAMBDA r :
                r.res = "ok" =>
                    /\ r.t.updated_base # NoCommit
                    /\ Base(r.t) = r.t.updated_base
                    /\ HoldsGroup(T, Base(r.t), to_commit)
                    /\ \A pn \in Range(to_commit) :
                          /\ pn \in DOMAIN r.t.updated_patches
                          /\ r.t.updated_patches[pn] = Tomb
                          /\ pn \notin AllPatches(r.t)
                    /\ r.t.applied = Without(applied, Range(to_commit))
                    /\ r.t.applied # <<>> =>
                          /\ CanGetPatch(r.t, r.t.applied[1])
                          /\ GetPatchCommit(r.t, r.t.applied[1]).parent = Base(r.t))


\* the same in the states whose lists share no name and whose applied patches
\* form a first-parent chain on base()
CommitPatchesOnSoundStack ==
    (AllReturnedOk /\ Disjoint(T) /\ FirstParentChain(T)) =>
        \A to_commit \in SubSeqsOf(applied) \ {<<>>} : \A env \in EnvSame :
            Let1(CommitPatches(T, to_commit, env), LAMBDA r :
                r.res = "ok" =>
                    /\ r.t.updated_base # NoCommit
                    /\ Base(r.t) = r.t.updated_base
                    /\ HoldsGroup(T, Base(r.t), to_commit)
                    /\ \A pn \in Range(to_commit) :
                          /\ pn \in DOMAIN r.t.updated_patches
                          /\ r.t.updated_patches[pn] = Tomb
                          /\ pn \notin AllPatches(r.t)
                    /\ r.t.applied = Without(applied, Range(to_commit))
                    /\ FirstParentChain(r.t))

\* the pairs handed to uncommit_patches: the stack base under a fresh name
UncommitPairs(t) ==
    IF Base(t).parent = NoCommit THEN {}
    ELSE {<<[patchname |-> pn, commit |-> Base(t)]>> : pn \in Names \ AllPatches(t)}

\* C27: after uncommit_patches(pairs) returns Ok, applied is the given names
\* in the given order followed by the former applied list, unapplied and
\* hidden are unchanged, and base() is the first parent of the first
\* uncommitted commit, so that top() and head() after popping every applied
\* patch are that commit.
C27_UncommitMovesBase ==
    AllReturnedOk =>
        \A pairs \in UncommitPairs(T) :
            Let1(UncommitPatches(T, pairs), LAMBDA r :
                r.res = "ok" =>
                    /\ r.t.applied = <<pairs[1].patchname>> \o applied
                    /\ r.t.unapplied = unapplied
                    /\ r.t.hidden = hidden
                    /\ Base(r.t) = pairs[1].commit.parent
                    /\ Let1(PopPatches(r.t, Range(r.t.applied)).t, LAMBDA popped :
                           /\ popped.applied = <<>>
                           /\ Top(popped) = pairs[1].commit.parent
                           /\ popped.updated_head = NoCommit =>
                                 TransHead(popped) = pairs[1].commit.parent))

\* what the code does: the lists are as claimed and base() stays where it was
UncommitKeepsBase ==
    AllReturnedOk =>
        \A pairs \in UncommitPairs(T) :
            Let1(UncommitPatches(T, pairs), LAMBDA r :
                /\ r.res = "ok"
                /\ r.t.applied = <<pairs[1].patchname>> \o applied
                /\ r.t.unapplied = unapplied
                /\ r.t.hidden = hidden
                /\ Base(r.t) = Base(T))

\* the inputs of a checkout call whose current_tree_id is the target's tree
\* and whose discard_changes is off: allow_bad_head, the conflict mode, whether
\* the worktree status has conflicts, and the transaction's top patch
SameTreeCheckouts ==
    [allow_bad_head : BOOLEAN, conflict_mode : ConflictModes, conflicts : BOOLEAN,
     trans_top : {<<>>} \cup {<<pn>> : pn \in Names}]

\* the checkout call with inputs i, to the commit head; a read-tree, should
\* one run, fails
SameTreeCheckout(i, head) ==
    Checkout(stack,
             [options EXCEPT !.discard_changes = FALSE,
                             !.allow_bad_head = i.allow_bad_head,
                             !.conflict_mode = i.conflict_mode],
             head.tree, i.trans_top, head,
             [tree |-> head.tree, conflicts |-> i.conflicts], FALSE)

\* what the conflict mode alone lets through
ModeAccepts(i) ==
    CASE i.conflict_mode = "Allow" -> TRUE
      [] i.conflict_mode = "Disallow" -> ~i.conflicts
      [] OTHER -> \/ ~i.conflicts
                  \/ i.trans_top # <<>> /\ i.trans_top = LastOf(stack.state.applied)

\* C28 as stated: when current_tree_id is the target commit's tree and
\* discard_changes is off, checkout never modifies worktree or index and its
\* result depends on the conflict mode only: Allow always succeeds, Disallow
\* fails iff the status has conflicts, AllowIfSameTop checks the status only
\* when the transaction's top patch is absent or differs from the stack's last
\* applied patch.
C28_SameTreeCheckout ==
    phase \in {"body", "ready"} =>
        Let1(TransHead(T), LAMBDA head :
            \A i \in SameTreeCheckouts :
                Let1(SameTreeCheckout(i, head), LAMBDA co :
                    /\ co.wt = [tree |-> head.tree, conflicts |-> i.conflicts]
                    /\ co.ok <=> ModeAccepts(i)))

\* C28 amended: under the same condition checkout never modifies worktree or
\* index; it fails when allow_bad_head is off and the branch head is not the
\* stack top, and otherwise its result depends on the conflict mode only, as
\* stated.
C28_SameTreeCheckoutHeadChecked ==
    phase \in {"body", "ready"} =>
        Let1(TransHead(T), LAMBDA head :
            \A i \in SameTreeCheckouts :
                Let1(SameTreeCheckout(i, head), LAMBDA co :
                    /\ co.wt = [tree |-> head.tree, conflicts |-> i.conflicts]
                    /\ co.ran \in {"none", "status"}
                    /\ co.ok <=>
                          /\ i.allow_bad_head \/ IsHeadTop(stack)
                          /\ ModeAccepts(i)))

\* C28 witness: a transaction that has changed its top patch, on a stack whose
\* branch head is the top, for which checkout under AllowIfSameTop fails on
\* conflicts while it succeeds for the stack's own top patch
C28_Witness ==
    /\ phase \in {"body", "ready"}
    /\ nops > 0
    /\ IsHeadTop(stack)
    /\ LastOf(applied) # LastOf(stack.state.applied)
    /\ \E i \in SameTreeCheckouts :
          /\ i.conflict_mode = "AllowIfSameTop" /\ i.conflicts
          /\ i.trans_top = LastOf(applied)
          /\ ~SameTreeCheckout(i, TransHead(T)).ok
    /\ \E i \in SameTreeCheckouts :
          /\ i.conflict_mode = "AllowIfSameTop" /\ i.conflicts
          /\ i.trans_top = LastOf(stack.state.applied)
          /\ SameTreeCheckout(i, TransHead(T)).ok

\* the ways push_patch halts with conflicts = false
PlainHalts == {"halt_apply", "halt_dirty", "halt_merge"}

\* what C29 says of one push_patch call that took t to r
PlainHaltFrame(t, r) ==
    /\ r.res = "halt"
    /\ r.t.applied = t.applied
    /\ r.t.unapplied = t.unapplied
    /\ r.t.hidden = t.hidden
    /\ r.t.updated_patches = t.updated_patches
    /\ r.t.updated_head = t.updated_head
    /\ r.t.options = t.options

\* C29: when push_patch halts with conflicts = false (the diff does not apply
\* in the temp index and use_index_and_worktree is off, the read-tree checkout
\* to ours fails, or the recursive merge fails hard), the patch is not moved
\* between lists, updated_patches, updated_head and conflict_mode are
\* unchanged, and the patch pushed before it in the same push_patches call
\* remains applied.
C29_PlainHaltFrame ==
    AllReturnedOk =>
        \A p \in SinglePushes(T) : \A e \in EnvChoices :
            Let1(PushPatch(T, p, FALSE, EmptyTempIndex, e), LAMBDA r1 :
                /\ PushHow(T, p, EmptyTempIndex, e) \in PlainHalts =>
                      PlainHaltFrame(T, r1)
                /\ r1.res = "ok" =>
                      /\ r1.t.applied = Append(applied, p)
                      /\ \A q \in SinglePushes(r1.t) : \A e2 \in EnvChoices :
                            PushHow(r1.t, q, r1.tix, e2) \in PlainHalts =>
                                PlainHaltFrame(r1.t,
                                    PushPatch(r1.t, q, FALSE, r1.tix, e2)))

\* C29 witness: a transaction in which a push halts on a diff that does not
\* apply, or on a dirty worktree, or on a failed merge, after the patch before
\* it in the same call was pushed
C29_Witness ==
    /\ AllReturnedOk
    /\ nops > 0
    /\ \E p \in SinglePushes(T) :
          Let1(PushPatch(T, p, FALSE, EmptyTempIndex, EnvOk), LAMBDA r1 :
              /\ r1.res = "ok"
              /\ \E q \in SinglePushes(r1.t) : \E e2 \in EnvChoices :
                    /\ PushHow(r1.t, q, r1.tix, e2) \in PlainHalts
                    /\ PushPatch(r1.t, q, FALSE, r1.tix, e2).res = "halt")

\* the earlier stack states of TargetStates, and the stack with every patch
\* popped: a state with no applied patch, whose head is the stack base
ResetStates ==
    TargetStates \cup
    { [prev |-> NoCommit, head |-> BaseCommit,
       applied |-> <<>>, unapplied |-> <<"b">>, hidden |-> <<"a">>,
       patches |-> [pn \in {"a", "b"} |->
                      IF pn = "a" THEN PatchA ELSE PatchBonBase]] }

\* C30: after reset_to_state(S) for a self-consistent state S, applied,
\* unapplied and hidden are S's lists, head() is S.head, base() is the first
\* parent of S's bottom applied patch (S.head when S has no applied patch),
\* every patch of S is live in the transaction with S's commit, and every
\* patch known before the call that is not in S is tombstoned.
C30_ResetToState ==
    AllReturnedOk =>
        \A state \in ResetStates :
            Let1(ResetToState(T, state), LAMBDA r :
                /\ r.res = "ok"
                /\ r.t.applied = state.applied
                /\ r.t.unapplied = state.unapplied
                /\ r.t.hidden = state.hidden
                /\ TransHead(r.t) = state.head
                /\ Base(r.t) = IF state.applied = <<>> THEN state.head
                               ELSE state.patches[state.applied[1]].parent
                /\ \A pn \in DOMAIN state.patches :
                      /\ HasPatch(r.t, pn)
                      /\ GetPatchCommit(r.t, pn) = state.patches[pn]
                /\ \A pn \in Names \ DOMAIN state.patches :
                      (HasPatch(T, pn) \/ pn \in AllPatches(T)) =>
                          /\ pn \in DOMAIN r.t.updated_patches
                          /\ r.t.updated_patches[pn] = Tomb)

\* C30 witness: a transaction that has created a patch and changed another,
\* on which reset_to_state returns Ok for a state that has neither
C30_Witness ==
    /\ AllReturnedOk
    /\ nops > 0
    /\ \A state \in ResetStates :
          /\ ResetToState(T, state).res = "ok"
          /\ \E pn \in NewNames : HasPatch(T, pn) /\ pn \in AllPatches(T)
          /\ \E pn \in DOMAIN stack.state.patches \ DOMAIN state.patches :
                /\ pn \in DOMAIN updated_patches
                /\ updated_patches[pn] # Tomb


\* C31: the consistency check at the start of execute() never fails after any
\* sequence of mutation methods that each returned Ok: every tombstoned name
\* of updated_patches is a patch of the original stack, and every name with a
\* live entry is in the current applied, unapplied or hidden list.
C31_AuditNeverFails == AllReturnedOk => AuditOk(T)


\* the half of the check that is about live entries
LiveEntriesListed ==
    AllReturnedOk =>
        \A pn \in DOMAIN updated_patches :
            updated_patches[pn] # Tomb => pn \in AllPatches(T)


\* the temp index holds the tree that temp_index_tree_id names
TempIndexSound(tix) == tix.id # NoTree => tix.actual = tix.id

\* the temp index the loop of push_patches starts with
TempIndexAtLoop(t, names, check_merged) ==
    IF check_merged THEN CheckMerged(t, names, EmptyTempIndex).tix
    ELSE EmptyTempIndex

\* the push of p on top of t is a three-way merge that finds its `ours` in
\* temp_index_tree_id and skips the reload
SkipsReload(t, p, already_merged, tix) ==
    Let1(GetPatchCommit(t, p), LAMBDA patch_commit :
    Let1(Top(t), LAMBDA new_parent :
        /\ ~already_merged
        /\ patch_commit.parent.tree # new_parent.tree
        /\ patch_commit.parent.tree # patch_commit.tree
        /\ new_parent.tree # patch_commit.tree
        /\ tix.id \in {patch_commit.tree, new_parent.tree}))

\* C32: throughout a push_patches call, whenever temp_index_tree_id is Some(t)
\* the temp index holds tree t, so a push that skips the reload applies its
\* tree-diff to an index holding exactly ours; in particular this holds for
\* the push that follows a push whose tree-diff applied cleanly.
C32_TempIndexTracked ==
    AllReturnedOk =>
        \A names \in PushLists(T) : \A env \in EnvFor(names) :
            \A check_merged \in BOOLEAN :
                Let1(TempIndexAtLoop(T, names, check_merged), LAMBDA tix0 :
                Let1(PushPatch(T, names[1], FALSE, tix0, env[1]), LAMBDA r1 :
                    /\ TempIndexSound(tix0)
                    /\ TempIndexSound(r1.tix)
                    /\ (Len(names) = 2 /\ r1.res = "ok") =>
                          TempIndexSound(PushPatch(r1.t, names[2], FALSE,
                                                   r1.tix, env[2]).tix)))

\* a second push that skips the reload although the first push's diff went
\* into the temp index
StaleTempIndexUsed ==
    /\ AllReturnedOk
    /\ \E names \in PushLists(T) :
          /\ Len(names) = 2
          /\ Let1(PushPatch(T, names[1], FALSE, EmptyTempIndex, EnvOk), LAMBDA r1 :
                /\ r1.res = "ok"
                /\ ~TempIndexSound(r1.tix)
                /\ SkipsReload(r1.t, names[2], FALSE, r1.tix))


\* C33: in every transaction state reachable by mutation methods that each
\* returned Ok (the target states' head being their own top), head() equals
\* top(): updated_head names no commit other than the commit of the last
\* applied patch, or base() when applied is empty.
C33_HeadIsTop == AllReturnedOk => TransHead(T) = Top(T)

\* what C34 says of one push_tree(p) call that took t to r
TreePushed(t, p, r) ==
    Let1(GetPatchCommit(t, p), LAMBDA old :
    Let1(Top(t), LAMBDA old_top :
        /\ IF Contains(t.unapplied, p)
           THEN /\ ~Contains(r.t.unapplied, p)
                /\ r.t.unapplied = Without(t.unapplied, {p})
                /\ r.t.hidden = t.hidden
           ELSE /\ ~Contains(r.t.hidden, p)
                /\ r.t.hidden = Without(t.hidden, {p})
                /\ r.t.unapplied = t.unapplied
        /\ r.t.applied = Append(t.applied, p)
        /\ CanGetPatch(r.t, p)
        /\ GetPatchCommit(r.t, p).tree = old.tree
        /\ GetPatchCommit(r.t, p).parent = old_top
        /\ (GetPatchCommit(r.t, p) = old) <=> (old.parent = old_top)
        /\ old.parent # old_top =>
              /\ p \in DOMAIN r.t.updated_patches
              /\ r.t.updated_patches[p] = Commit(old_top, old.tree, old.msg)
        /\ old.parent = old_top => r.t.updated_patches = t.updated_patches))

\* C34: after push_tree(p) returns Ok for p in unapplied or hidden, p is
\* removed from that list and is last in applied, the tree of p's commit is
\* the same as before the call, and the first parent of p's commit is the
\* top() from before the call; p's commit is unchanged iff its first parent
\* already was that top, and otherwise a new commit is recorded in
\* updated_patches.
C34_PushTree ==
    AllReturnedOk =>
        \A p \in Pushable :
            Let1(PushTree(T, p), LAMBDA r :
                r.res = "ok" => TreePushed(T, p, r))


\* on lists that name no patch twice, push_tree does what C34 says
PushTreeOnDisjointLists ==
    (AllReturnedOk /\ Disjoint(T)) =>
        \A p \in Pushable :
            Let1(PushTree(T, p), LAMBDA r :
                r.res = "ok" => TreePushed(T, p, r))

\* push_tree returns Ok on such lists, for a patch that gets a new commit
PushTreeOnDisjointListsSeen ==
    /\ AllReturnedOk
    /\ Disjoint(T)
    /\ nops > 0
    /\ \E p \in Pushable :
          /\ PushTree(T, p).res = "ok"
          /\ GetPatchCommit(T, p).parent # Top(T)

=============================================================================
